---- MODULE Spec2Model ----
(***************************************************************************)
(* Model of the runtime configuration generator of the Encore daemon       *)
(* (cli/daemon/run/runtime_config2.go): the guarded one-time               *)
(* initialization of the infra graph, the four entry points that reduce    *)
(* the graph to per-process runtime configurations, and the pure helpers   *)
(* that scope secrets to services.                                         *)
(***************************************************************************)
EXTENDS Integers, Sequences, FiniteSets, TLC

VARIABLES
    md,             \* g.md: the parsed application metadata
    DefinedSecrets, \* g.DefinedSecrets: secret name -> value
    SvcConfigs,     \* g.SvcConfigs: service name -> config blob
    infraCfg,       \* what the app and the infra manager answer to lookups
    done,           \* g.initOnce.done
    mu,             \* g.initOnce.m: 0 when free, else the caller holding it
    conf,           \* g.conf: the builder holding the infra graph
    authKeys,       \* g.authKeys
    nextRid,        \* xid.New(): the last identifier handed out
    stage,          \* position of the running build body inside initialize
    idx,            \* loop index of the running build body
    sqlCluster,     \* the build body's local `cluster` of the SQL stage
    lookups,        \* app / infra-manager lookups made by the current build body
    pc,             \* per caller: position in its entry point
    ret,            \* per caller: what the entry point returned
    calls,          \* number of entry-point calls made so far
    callHist,       \* history, per caller: what its current call went through
    builds,         \* history: build bodies started, completed, failed
    graphs,         \* history: every graph a caller observed after initialize
    proxy,          \* the svcproxy collaborator: registrations made so far
    fnArgs,         \* pure-function checks: the arguments of the last application
    fnRes           \* pure-function checks: the result of the last application

vars == <<md, DefinedSecrets, SvcConfigs, infraCfg, done, mu, conf, authKeys,
          nextRid, stage, idx, sqlCluster, lookups, pc, ret, calls,
          callHist, builds, graphs, proxy, fnArgs, fnRes>>

(***************************************************************************)
(* Bounds of the model.                                                    *)
(***************************************************************************)
NumCallers == 2
MaxCalls == 2
MaxPkgs == 2
MaxPkgSecrets == 2
MaxSvcNames == 2
NumPorts == 2
XidSpan == 100

Callers == 1..NumCallers
Ports == 1..NumPorts

(***************************************************************************)
(* Generic helpers.                                                        *)
(***************************************************************************)
Range(s) == {s[i] : i \in DOMAIN s}

SeqsUpTo(S, n) == UNION {[1..k -> S] : k \in 0..n}

EmptyMap == [x \in {} |-> ""]

\* The permutations of a finite set, as sequences (Go's map iteration order).
Orders(S) == {s \in [1..Cardinality(S) -> S] : Range(s) = S}

RECURSIVE SelectSeqBy(_, _)
SelectSeqBy(s, keep) ==
    IF s = <<>> THEN <<>>
    ELSE IF Head(s) \in keep
         THEN <<Head(s)>> \o SelectSeqBy(Tail(s), keep)
         ELSE SelectSeqBy(Tail(s), keep)

(***************************************************************************)
(* Secret scoping (pure functions of the metadata).                        *)
(***************************************************************************)
RECURSIVE ScopePkgs(_, _, _)
ScopePkgs(pkgs, svcNameSet, secretNames) ==
    IF pkgs = <<>> THEN secretNames
    ELSE LET pkg == Head(pkgs)
         IN  IF Len(pkg.Secrets) > 0
                /\ (pkg.ServiceName = "" \/ pkg.ServiceName \in svcNameSet)
             THEN ScopePkgs(Tail(pkgs), svcNameSet, secretNames \cup Range(pkg.Secrets))
             ELSE ScopePkgs(Tail(pkgs), svcNameSet, secretNames)

\* A plausible slip: the ownership test is dropped, every package's secrets leak.
secretsUsedByServices_NoOwnerCheck(m, svcNames) ==
    UNION {Range(m.Pkgs[i].Secrets) : i \in DOMAIN m.Pkgs}

\* A plausible slip: the loop over the packages ends at the first one that counts.
secretsUsedByServices_FirstMatch(m, svcNames) ==
    LET counts == {i \in DOMAIN m.Pkgs :
                      /\ Len(m.Pkgs[i].Secrets) > 0
                      /\ m.Pkgs[i].ServiceName = "" \/ m.Pkgs[i].ServiceName \in Range(svcNames)}
    IN  IF counts = {} THEN {}
        ELSE Range(m.Pkgs[CHOOSE i \in counts : \A j \in counts : i <= j].Secrets)

secretsUsedByServices(m, svcNames) ==
    ScopePkgs(m.Pkgs, Range(svcNames), {})

(***************************************************************************)
(* The inputs of a generator: metadata, defined secrets, service configs   *)
(* and the answers of the app descriptor and the infra manager.            *)
(***************************************************************************)
Pkg(svc, secrets) == [ServiceName |-> svc, Secrets |-> secrets]

Svc(name, dbs, buckets) == [Name |-> name, Databases |-> dbs, Buckets |-> buckets]

Topic(name, guarantee, publishers, subs) ==
    [Name |-> name, DeliveryGuarantee |-> guarantee, OrderingKey |-> "",
     Publishers |-> publishers, Subscriptions |-> subs]

Sub(name, svc) == [Name |-> name, ServiceName |-> svc]

EmptyMeta ==
    [Svcs |-> <<>>, Gateways |-> <<>>, Pkgs |-> <<>>, SqlDatabases |-> <<>>,
     PubsubTopics |-> <<>>, CacheClusters |-> <<>>, Buckets |-> <<>>]

\* Services A and B behind gateway "api"; A owns three databases and publishes
\* to a topic B subscribes to; B owns a cache cluster and a bucket.
FullMeta(pkgs, topics) ==
    [Svcs |-> <<Svc("A", {"db1", "db2", "db3"}, {}), Svc("B", {}, {"b1"})>>,
     Gateways |-> <<[EncoreName |-> "api"]>>,
     Pkgs |-> pkgs,
     SqlDatabases |-> <<[Name |-> "db1"], [Name |-> "db2"], [Name |-> "db3"]>>,
     PubsubTopics |-> topics,
     CacheClusters |-> <<[Name |-> "c1", Keyspaces |-> {"B"}]>>,
     Buckets |-> <<[Name |-> "b1", Public |-> TRUE]>>]

\* Service users with two databases and service jobs, three cache clusters,
\* no gateway.
SmallMeta(pkgs) ==
    [Svcs |-> <<Svc("users", {"db1", "db2"}, {}), Svc("jobs", {}, {})>>,
     Gateways |-> <<>>,
     Pkgs |-> pkgs,
     SqlDatabases |-> <<[Name |-> "db1"], [Name |-> "db2"]>>,
     PubsubTopics |-> <<>>,
     CacheClusters |-> <<[Name |-> "c1", Keyspaces |-> {"users"}],
                         [Name |-> "c2", Keyspaces |-> {"jobs"}],
                         [Name |-> "c3", Keyspaces |-> {"jobs"}]>>,
     Buckets |-> <<>>]

\* Topic t1 goes from A to B at least once, t2 is published by B exactly once;
\* t3 carries a delivery guarantee outside the two the metadata schema names.
KnownTopics ==
    <<Topic("t1", "AT_LEAST_ONCE", {"A"}, <<Sub("sub1", "B")>>),
      Topic("t2", "EXACTLY_ONCE", {"B"}, <<>>)>>
UnknownTopics == KnownTopics \o <<Topic("t3", "2", {"A"}, <<>>)>>

ScenarioPkgs == <<Pkg("A", <<"S1">>), Pkg("B", <<>>), Pkg("", <<"S2">>)>>
SmallPkgs == <<Pkg("users", <<"S1", "S3">>), Pkg("", <<"S3">>)>>

\* Values a secret can hold; the sqldb:: ones are external database configs.
ExtGood == "{\"connection_string\":\"postgres://u:p@host/db\"}"
ExtBadConn == "{\"connection_string\":\"postgres://%zz\"}"
ExtBadJSON == "{connection_string"

SameUsers == [db1 |-> "u1", db2 |-> "u1", db3 |-> "u1"]
OtherUsers == [db1 |-> "u1", db2 |-> "u2", db3 |-> "u1"]

\* The app descriptor, the generator's remaining fields and the infra manager.
Infra(users, redisUser, redisPassword, origins, trace) ==
    [AppID |-> "app", PlatformID |-> "slug",
     AuthKey |-> [KeyID |-> 1, Data |-> "authkey"],
     TraceEndpoint |-> trace, TraceSamplingRate |-> IF trace = <<>> THEN <<>> ELSE <<150>>,
     DeployID |-> <<>>,
     Gateways |-> [n \in {"api"} |-> [BaseURL |-> "http://api", Hostnames |-> <<"api.local">>]],
     AppFile |-> [LogLevel |-> "", WorkerPooling |-> FALSE],
     CORS |-> [Debug |-> FALSE, AllowHeaders |-> <<>>, ExposeHeaders |-> <<>>,
               AllowOriginsWithCredentials |-> origins,
               AllowOriginsWithoutCredentials |-> <<>>],
     NSQHost |-> "nsq:4150",
     SQLServer |-> [Host |-> "sql:5432", ServerCACert |-> ""],
     SQLUsers |-> users,
     Redis |-> [Host |-> "redis:6379", User |-> redisUser, Password |-> redisPassword,
                EnableTLS |-> FALSE, ServerCACert |-> ""],
     RedisAuth |-> EmptyMap,
     GCSEndpoint |-> "http://gcs", PublicBaseURL |-> "http://public",
     IncludeMetaEnv |-> trace # <<>>, RuntimeLib |-> IF trace # <<>> THEN "/lib/rt" ELSE ""]

World(m, secrets, cfgs, inf) ==
    [md |-> m, DefinedSecrets |-> secrets, SvcConfigs |-> cfgs, infraCfg |-> inf]

\* The generators the model runs.
Worlds ==
    { World(FullMeta(ScenarioPkgs, KnownTopics),
            [n \in {"S1", "sqldb::db3"} |-> IF n = "S1" THEN "v1" ELSE ExtGood],
            EmptyMap, Infra(SameUsers, "r", "pw", <<"https://app">>, <<"http://trace">>)),
      World(FullMeta(ScenarioPkgs, UnknownTopics), [n \in {"S1"} |-> "v1"],
            EmptyMap, Infra(SameUsers, "", "", <<>>, <<>>)),
      World(SmallMeta(SmallPkgs), [n \in {"S1"} |-> "v1"],
            [n \in {"users"} |-> "cfg"],
            [Infra(OtherUsers, "", "pw", <<>>, <<>>) EXCEPT
               !.RedisAuth = [n \in {"c2", "c3"} |->
                                IF n = "c2" THEN [User |-> "", Password |-> ""]
                                ELSE [User |-> "r", Password |-> "pw3"]]]),
      World(SmallMeta(SmallPkgs), [n \in {"sqldb::db1"} |-> ExtBadJSON],
            EmptyMap, Infra(OtherUsers, "", "", <<>>, <<>>)),
      World(SmallMeta(SmallPkgs), [n \in {"sqldb::db2"} |-> ExtBadConn],
            EmptyMap, Infra(OtherUsers, "", "", <<>>, <<>>)) }

(***************************************************************************)
(* The collaborators' answers to a successful lookup.                      *)
(***************************************************************************)
SQLDatabaseConfig(inf, db) ==
    [EncoreName |-> db.Name, DatabaseName |-> db.Name,
     User |-> inf.SQLUsers[db.Name], Password |-> "pw-" \o inf.SQLUsers[db.Name],
     MinConnections |-> 0, MaxConnections |-> 10]

\* The server config the infra manager gives for cache cluster cl.
RedisServerConfig(inf, cl) ==
    IF cl.Name \in DOMAIN inf.RedisAuth
    THEN [inf.Redis EXCEPT !.User = inf.RedisAuth[cl.Name].User,
                           !.Password = inf.RedisAuth[cl.Name].Password]
    ELSE inf.Redis

RedisDatabaseConfig(inf, cl) ==
    [EncoreName |-> cl.Name, Database |-> 1, KeyPrefix |-> "",
     MinConnections |-> 0, MaxConnections |-> 10]

\* json.Unmarshal of an external database config: the connection string, if any.
JSONConnectionString(s) ==
    IF s = ExtGood THEN [ok |-> TRUE, ConnectionString |-> "postgres://u:p@host/db"]
    ELSE IF s = ExtBadConn THEN [ok |-> TRUE, ConnectionString |-> "postgres://%zz"]
    ELSE [ok |-> FALSE, ConnectionString |-> ""]

\* pgx.ParseConfig of a connection string.
PgxParseConfig(cs) ==
    IF cs = "postgres://u:p@host/db"
    THEN [ok |-> TRUE, Host |-> "host", User |-> "u", Password |-> "p", Database |-> "db"]
    ELSE [ok |-> FALSE, Host |-> "", User |-> "", Password |-> "", Database |-> ""]

(***************************************************************************)
(* The builder of the infra graph (package rtconfgen): every add is a      *)
(* get-or-create keyed by the Rid of the object added.                     *)
(***************************************************************************)
EmptyInfra ==
    [Gateways |-> <<>>, PubSubClusters |-> <<>>, SQLClusters |-> <<>>, SQLRoles |-> <<>>,
     RedisClusters |-> <<>>, RedisRoles |-> <<>>, BucketClusters |-> <<>>,
     AppSecrets |-> <<>>]

NilBuilder ==
    [isNil |-> TRUE, DeployID |-> <<>>, DeployedAt |-> 0, Env |-> <<>>,
     PlatformSigningKeys |-> <<>>, Tracing |-> <<>>, ServiceConfigs |-> <<>>,
     AuthMethods |-> <<>>, GracefulShutdown |-> <<>>, Infra |-> EmptyInfra]

NewBuilder == [NilBuilder EXCEPT !.isNil = FALSE]

HasRid(seq, rid) == \E i \in DOMAIN seq : seq[i].Rid = rid

AddByRid(seq, item) == IF HasRid(seq, item.Rid) THEN seq ELSE Append(seq, item)

\* Apply f to the element of seq whose Rid is rid.
InCluster(seq, rid, f(_)) ==
    [i \in DOMAIN seq |-> IF seq[i].Rid = rid THEN f(seq[i]) ELSE seq[i]]

BuilderGateway(b, gw) == [b EXCEPT !.Infra.Gateways = AddByRid(@, gw)]

BuilderPubSubCluster(b, cl) == [b EXCEPT !.Infra.PubSubClusters = AddByRid(@, cl)]

BuilderSQLCluster(b, rid) ==
    [b EXCEPT !.Infra.SQLClusters =
        AddByRid(@, [Rid |-> rid, Servers |-> <<>>, Databases |-> <<>>])]

BuilderSQLServer(b, clusterRid, srv) ==
    LET add(cl) == [cl EXCEPT !.Servers = AddByRid(@, srv)]
    IN  [b EXCEPT !.Infra.SQLClusters = InCluster(@, clusterRid, add)]

BuilderSQLDatabase(b, clusterRid, db) ==
    LET add(cl) == [cl EXCEPT !.Databases = AddByRid(@, db)]
    IN  [b EXCEPT !.Infra.SQLClusters = InCluster(@, clusterRid, add)]

BuilderSQLRole(b, role) == [b EXCEPT !.Infra.SQLRoles = AddByRid(@, role)]

BuilderRedisCluster(b, rid) ==
    [b EXCEPT !.Infra.RedisClusters =
        AddByRid(@, [Rid |-> rid, Servers |-> <<>>, Databases |-> <<>>])]

BuilderRedisServer(b, clusterRid, srv) ==
    LET add(cl) == [cl EXCEPT !.Servers = AddByRid(@, srv)]
    IN  [b EXCEPT !.Infra.RedisClusters = InCluster(@, clusterRid, add)]

BuilderRedisDatabase(b, clusterRid, db) ==
    LET add(cl) == [cl EXCEPT !.Databases = AddByRid(@, db)]
    IN  [b EXCEPT !.Infra.RedisClusters = InCluster(@, clusterRid, add)]

BuilderRedisRole(b, role) == [b EXCEPT !.Infra.RedisRoles = AddByRid(@, role)]

BuilderBucketCluster(b, cl) == [b EXCEPT !.Infra.BucketClusters = AddByRid(@, cl)]

BuilderAppSecret(b, sec) == [b EXCEPT !.Infra.AppSecrets = AddByRid(@, sec)]

(***************************************************************************)
(* initialize: the stages of the build body.  Each stage operator takes    *)
(* the builder b and the identifier counter n and gives the builder, the   *)
(* counter and the error ("" for none) the stage ends with.                *)
(***************************************************************************)
\* xid.New() never repeats: an identifier carries the time it is drawn at (here
\* the number of the build body started last) and a counter within that time.
XidEpoch(build) == build * XidSpan

\* Lines 100, 481, 555, 600, 673.
newRid(n) == "res_" \o ToString(n)

toSecret(b) == [Source |-> "embedded", Embedded |-> b]

ptrOrNil(val) == IF val = "" THEN <<>> ELSE <<val>>

Min(a, b) == IF a < b THEN a ELSE b
Max(a, b) == IF a > b THEN a ELSE b

StageResult(b, n, err) == [b |-> b, n |-> n, err |-> err]

\* Lines 305, 330, 367: the role Rid is built from the cluster Rid and the username.
RoleRid(clusterRid, user) == "role:" \o clusterRid \o ":" \o user

\* Lines 98-143: builder, environment, auth keys, platform, tracing.
AuthKeysOf(inf) == <<[Id |-> inf.AuthKey.KeyID, Data |-> toSecret(inf.AuthKey.Data)]>>

StagePlatform(inf, now, n) ==
    LET b1 == [NewBuilder EXCEPT
                 !.DeployID = inf.DeployID,
                 !.DeployedAt = now,
                 !.Env = <<[AppId |-> inf.AppID, AppSlug |-> inf.PlatformID,
                            EnvId |-> "local", EnvName |-> "local",
                            EnvType |-> "DEVELOPMENT", Cloud |-> "LOCAL"]>>,
                 !.PlatformSigningKeys = AuthKeysOf(inf)]
        \* the sampling rate in percent, clamped to [0, 100]
        rate == IF inf.TraceSamplingRate = <<>> THEN 100
                ELSE Min(Max(inf.TraceSamplingRate[1], 0), 100)
    IN  IF inf.TraceEndpoint # <<>>
        THEN StageResult([b1 EXCEPT !.Tracing =
                            <<[Rid |-> newRid(n + 1), TraceEndpoint |-> inf.TraceEndpoint[1],
                               SamplingRate |-> rate]>>], n + 1, "")
        ELSE StageResult(b1, n, "")

\* Lines 149-176: hosted-service configs, auth methods, graceful shutdown.
StageServices(b, m, inf, keys) ==
    [b EXCEPT
       !.ServiceConfigs =
           [i \in DOMAIN m.Svcs |->
               [Name |-> m.Svcs[i].Name, LogConfig |-> ptrOrNil(inf.AppFile.LogLevel),
                WorkerThreads |-> IF inf.AppFile.WorkerPooling THEN <<0>> ELSE <<>>]],
       !.AuthMethods = <<[EncoreAuth |-> [AuthKeys |-> keys]]>>,
       !.GracefulShutdown = <<[Total |-> 10, ShutdownHooks |-> 4, Handlers |-> 2]>>]

\* Lines 184-205: one gateway, with its CORS policy.
StageGateway(b, gw, inf, cors, n) ==
    LET gwCfg == IF gw.EncoreName \in DOMAIN inf.Gateways
                 THEN inf.Gateways[gw.EncoreName]
                 ELSE [BaseURL |-> "", Hostnames |-> <<>>]
    IN StageResult(
         BuilderGateway(b,
           [Rid |-> newRid(n + 1), EncoreName |-> gw.EncoreName,
            BaseUrl |-> gwCfg.BaseURL, Hostnames |-> gwCfg.Hostnames,
            Cors |-> [Debug |-> cors.Debug, DisableCredentials |-> FALSE,
                      ExtraAllowedHeaders |-> cors.AllowHeaders,
                      ExtraExposedHeaders |-> cors.ExposeHeaders,
                      UnsafeAllowAllOriginsWithCredentials |-> TRUE,
                      AllowedOriginsWithCredentials |-> <<>>,
                      AllowedOriginsWithoutCredentials |-> <<"*">>,
                      AllowPrivateNetworkAccess |-> TRUE]]),
         n + 1, "")

\* A plausible slip: the default case keeps the zero value and goes on.
DeliveryGuarantee_Defaulted(g) ==
    IF g = "AT_LEAST_ONCE" THEN [ok |-> TRUE, val |-> "DELIVERY_GUARANTEE_AT_LEAST_ONCE"]
    ELSE IF g = "EXACTLY_ONCE" THEN [ok |-> TRUE, val |-> "DELIVERY_GUARANTEE_EXACTLY_ONCE"]
    ELSE [ok |-> TRUE, val |-> "DELIVERY_GUARANTEE_UNSPECIFIED"]

\* Lines 224-232: the runtime delivery guarantee of a metadata delivery guarantee.
DeliveryGuarantee(g) ==
    IF g = "AT_LEAST_ONCE" THEN [ok |-> TRUE, val |-> "DELIVERY_GUARANTEE_AT_LEAST_ONCE"]
    ELSE IF g = "EXACTLY_ONCE" THEN [ok |-> TRUE, val |-> "DELIVERY_GUARANTEE_EXACTLY_ONCE"]
    ELSE [ok |-> FALSE, val |-> "DELIVERY_GUARANTEE_UNSPECIFIED"]

\* Lines 221-254: the topics and subscriptions of the pub/sub cluster cl.
RECURSIVE AddTopics(_, _, _)
AddTopics(cl, topics, n) ==
    IF topics = <<>> THEN [cl |-> cl, n |-> n, err |-> ""]
    ELSE LET topic == Head(topics)
             topicRid == newRid(n + 1)
             guarantee == DeliveryGuarantee(topic.DeliveryGuarantee)
             subs == [i \in DOMAIN topic.Subscriptions |->
                        [Rid |-> newRid(n + 1 + i), TopicEncoreName |-> topic.Name,
                         SubscriptionEncoreName |-> topic.Subscriptions[i].Name,
                         TopicCloudName |-> topic.Name,
                         SubscriptionCloudName |-> topic.Subscriptions[i].Name,
                         PushOnly |-> FALSE]]
         IN  IF ~guarantee.ok
             THEN [cl |-> cl, n |-> n + 1, err |-> "unknown delivery guarantee"]
             ELSE AddTopics(
                    [cl EXCEPT
                       !.Topics = Append(@,
                          [Rid |-> topicRid, EncoreName |-> topic.Name,
                           CloudName |-> topic.Name,
                           DeliveryGuarantee |-> guarantee.val,
                           OrderingAttr |-> ptrOrNil(topic.OrderingKey)]),
                       !.Subscriptions = @ \o subs],
                    Tail(topics), n + 1 + Len(subs))

\* Lines 214-254: the pub/sub cluster.
StagePubSub(b, m, inf, n) ==
    LET cl0 == [Rid |-> newRid(n + 1), NSQHosts |-> <<inf.NSQHost>>,
                Topics |-> <<>>, Subscriptions |-> <<>>]
        r == AddTopics(cl0, m.PubsubTopics, n + 1)
    IN  StageResult(BuilderPubSubCluster(b, r.cl), r.n, r.err)

\* Lines 263-279: the managed SQL cluster and its primary server.
StageSQLServer(b, inf, n) ==
    LET tls == IF inf.SQLServer.ServerCACert # ""
               THEN <<[ServerCaCert |-> <<inf.SQLServer.ServerCACert>>,
                       DisableCaValidation |-> FALSE]>>
               ELSE <<>>
    IN StageResult(
         BuilderSQLServer(BuilderSQLCluster(b, newRid(n + 1)), newRid(n + 1),
           [Rid |-> newRid(n + 2), Kind |-> "PRIMARY", Host |-> inf.SQLServer.Host,
            TlsConfig |-> tls]),
         n + 2, "")

ConnPool(roleRid, minConns, maxConns) ==
    [IsReadonly |-> FALSE, RoleRid |-> roleRid,
     MinConnections |-> minConns, MaxConnections |-> maxConns]

\* A plausible slip: the pool is added but its role never is.
StageManagedDB_NoRole(b, clusterRid, dbConfig, n) ==
    StageResult(
      BuilderSQLDatabase(b, clusterRid,
         [Rid |-> newRid(n + 1), EncoreName |-> dbConfig.EncoreName,
          CloudName |-> dbConfig.DatabaseName,
          ConnPools |-> <<ConnPool(RoleRid(clusterRid, dbConfig.User),
                                  dbConfig.MinConnections, dbConfig.MaxConnections)>>]),
      n + 1, "")

\* A plausible slip: the role Rid is a fresh identifier per database.
StageManagedDB_FreshRole(b, clusterRid, dbConfig, n) ==
    LET roleRid == newRid(n + 2)
        b1 == BuilderSQLRole(b,
                [Rid |-> roleRid, Username |-> dbConfig.User,
                 Password |-> toSecret(dbConfig.Password)])
    IN StageResult(
         BuilderSQLDatabase(b1, clusterRid,
            [Rid |-> newRid(n + 1), EncoreName |-> dbConfig.EncoreName,
             CloudName |-> dbConfig.DatabaseName,
             ConnPools |-> <<ConnPool(roleRid, dbConfig.MinConnections,
                                      dbConfig.MaxConnections)>>]),
         n + 2, "")

\* Lines 329-347: a database of the managed cluster, its role and its pool.
StageManagedDB(b, clusterRid, dbConfig, n) ==
    LET roleRid == RoleRid(clusterRid, dbConfig.User)
        b1 == BuilderSQLRole(b,
                [Rid |-> roleRid, Username |-> dbConfig.User,
                 Password |-> toSecret(dbConfig.Password)])
    IN StageResult(
         BuilderSQLDatabase(b1, clusterRid,
            [Rid |-> newRid(n + 1), EncoreName |-> dbConfig.EncoreName,
             CloudName |-> dbConfig.DatabaseName,
             ConnPools |-> <<ConnPool(roleRid, dbConfig.MinConnections,
                                     dbConfig.MaxConnections)>>]),
         n + 1, "")

\* A plausible slip: the external database goes into the cluster added first,
\* the app's managed one, with a role of that cluster.
StageExternalDB_InManaged(b, db, externalDB, n) ==
    LET pCfg == PgxParseConfig(JSONConnectionString(externalDB).ConnectionString)
        clusterRid == b.Infra.SQLClusters[1].Rid
        roleRid == RoleRid(clusterRid, pCfg.User)
        b1 == BuilderSQLRole(b, [Rid |-> roleRid, Username |-> pCfg.User,
                                 Password |-> toSecret(pCfg.Password)])
    IN StageResult(
         BuilderSQLDatabase(b1, clusterRid,
            [Rid |-> newRid(n + 1), EncoreName |-> db.Name, CloudName |-> pCfg.Database,
             ConnPools |-> <<ConnPool(roleRid, 0, 0)>>]),
         n + 1, "")

\* Lines 282-322: a database with an externally supplied connection string.
StageExternalDB(b, db, externalDB, n) ==
    LET extCfg == JSONConnectionString(externalDB)
        pCfg == PgxParseConfig(extCfg.ConnectionString)
        clusterRid == newRid(n + 1)
        roleRid == RoleRid(clusterRid, pCfg.User)
        b1 == BuilderSQLServer(BuilderSQLCluster(b, clusterRid), clusterRid,
                [Rid |-> newRid(n + 2), Kind |-> "PRIMARY", Host |-> pCfg.Host,
                 TlsConfig |-> <<[ServerCaCert |-> <<>>, DisableCaValidation |-> TRUE]>>])
        b2 == BuilderSQLRole(b1,
                [Rid |-> roleRid, Username |-> pCfg.User,
                 Password |-> toSecret(pCfg.Password)])
    IN  IF ~extCfg.ok
        THEN StageResult(b, n, "failed to unmarshal external DB config")
        ELSE IF ~pCfg.ok
        THEN StageResult(b, n, "failed to parse external DB connection string")
        ELSE StageResult(
               BuilderSQLDatabase(b2, clusterRid,
                  [Rid |-> newRid(n + 3), EncoreName |-> db.Name,
                   CloudName |-> pCfg.Database,
                   ConnPools |-> <<ConnPool(roleRid, 0, 0)>>]),
               n + 3, "")

\* A plausible slip: a password always makes an ACL role, username or not.
RedisRoleOf_AclWithoutUser(roleRid, srvConfig) ==
    [Rid |-> roleRid,
     Auth |-> IF srvConfig.Password # ""
              THEN [kind |-> "acl", Username |-> srvConfig.User,
                    Password |-> <<toSecret(srvConfig.Password)>>]
              ELSE [kind |-> "none", Username |-> "", Password |-> <<>>]]

\* Lines 368-385: the credential shape of a cache role.
RedisRoleOf(roleRid, srvConfig) ==
    [Rid |-> roleRid,
     Auth |-> IF srvConfig.User # "" /\ srvConfig.Password # ""
              THEN [kind |-> "acl", Username |-> srvConfig.User,
                    Password |-> <<toSecret(srvConfig.Password)>>]
              ELSE IF srvConfig.Password # ""
              THEN [kind |-> "auth_string", Username |-> "",
                    Password |-> <<toSecret(srvConfig.Password)>>]
              ELSE [kind |-> "none", Username |-> "", Password |-> <<>>]]

\* Lines 361-411: one cache cluster with its role, server and database.
StageRedis(b, srvConfig, dbConfig, n) ==
    LET clusterRid == newRid(n + 1)
        roleRid == RoleRid(clusterRid, srvConfig.User)
        tls == IF srvConfig.EnableTLS \/ srvConfig.ServerCACert # ""
               THEN <<[ServerCaCert |-> ptrOrNil(srvConfig.ServerCACert),
                       DisableCaValidation |-> FALSE]>>
               ELSE <<>>
        b1 == BuilderRedisRole(BuilderRedisCluster(b, clusterRid),
                               RedisRoleOf(roleRid, srvConfig))
        b2 == BuilderRedisServer(b1, clusterRid,
                [Rid |-> newRid(n + 2), Host |-> srvConfig.Host, Kind |-> "PRIMARY",
                 TlsConfig |-> tls])
    IN StageResult(
         BuilderRedisDatabase(b2, clusterRid,
            [Rid |-> newRid(n + 3), EncoreName |-> dbConfig.EncoreName,
             DatabaseIdx |-> dbConfig.Database, KeyPrefix |-> ptrOrNil(dbConfig.KeyPrefix),
             ConnPools |-> <<ConnPool(roleRid, dbConfig.MinConnections,
                                     dbConfig.MaxConnections)>>]),
         n + 3, "")

\* Lines 421-450: the bucket cluster and its buckets.
StageBuckets(b, m, inf, n) ==
    StageResult(
      BuilderBucketCluster(b,
         [Rid |-> newRid(n + 1), Endpoint |-> inf.GCSEndpoint, Anonymous |-> TRUE,
          LocalSign |-> [BaseUrl |-> inf.PublicBaseURL, AccessId |-> "dummy-sa@encore.local"],
          Buckets |-> [i \in DOMAIN m.Buckets |->
                         [Rid |-> newRid(n + 1 + i), EncoreName |-> m.Buckets[i].Name,
                          CloudName |-> m.Buckets[i].Name,
                          PublicBaseUrl |-> IF m.Buckets[i].Public
                                            THEN <<inf.PublicBaseURL \o "/" \o m.Buckets[i].Name>>
                                            ELSE <<>>]]]),
      n + 1 + Len(m.Buckets), "")

\* Lines 453-459: one app secret per defined secret, in the map's iteration order.
RECURSIVE StageSecrets(_, _, _, _)
StageSecrets(b, order, secrets, n) ==
    IF order = <<>> THEN StageResult(b, n, "")
    ELSE StageSecrets(
           BuilderAppSecret(b, [Rid |-> newRid(n + 1), EncoreName |-> Head(order),
                                Data |-> toSecret(secrets[Head(order)])]),
           Tail(order), secrets, n + 1)

(***************************************************************************)
(* Deployments (package rtconfgen): the reduction of the graph to what a   *)
(* set of hosted services and gateways uses, and the runtime configuration *)
(* built from it.                                                          *)
(***************************************************************************)
SvcNames(m) == [i \in DOMAIN m.Svcs |-> m.Svcs[i].Name]
GatewayNames(m) == [i \in DOMAIN m.Gateways |-> m.Gateways[i].EncoreName]

UsedDBs(m, svcs) == UNION {m.Svcs[i].Databases : i \in {j \in DOMAIN m.Svcs : m.Svcs[j].Name \in svcs}}
UsedBuckets(m, svcs) == UNION {m.Svcs[i].Buckets : i \in {j \in DOMAIN m.Svcs : m.Svcs[j].Name \in svcs}}
UsedTopics(m, svcs) ==
    {m.PubsubTopics[i].Name : i \in {j \in DOMAIN m.PubsubTopics :
        \/ m.PubsubTopics[j].Publishers \cap svcs # {}
        \/ \E k \in DOMAIN m.PubsubTopics[j].Subscriptions :
              m.PubsubTopics[j].Subscriptions[k].ServiceName \in svcs}}
UsedSubs(m, svcs) ==
    UNION {{<<m.PubsubTopics[i].Name, m.PubsubTopics[i].Subscriptions[k].Name>> :
              k \in {l \in DOMAIN m.PubsubTopics[i].Subscriptions :
                        m.PubsubTopics[i].Subscriptions[l].ServiceName \in svcs}} :
           i \in DOMAIN m.PubsubTopics}
UsedCaches(m, svcs) ==
    {m.CacheClusters[i].Name : i \in {j \in DOMAIN m.CacheClusters :
        m.CacheClusters[j].Keyspaces \cap svcs # {}}}
UsedSecrets(m, svcs) == ScopePkgs(m.Pkgs, svcs, {})

PoolRoleRids(clusters) ==
    UNION {UNION {{clusters[i].Databases[j].ConnPools[k].RoleRid :
                      k \in DOMAIN clusters[i].Databases[j].ConnPools} :
                  j \in DOMAIN clusters[i].Databases} :
           i \in DOMAIN clusters}

\* Keep of each cluster the databases named in keep; drop the clusters left empty.
KeepDatabases(clusters, keep) ==
    SelectSeq([i \in DOMAIN clusters |->
                 [clusters[i] EXCEPT !.Databases = SelectSeq(@, LAMBDA d : d.EncoreName \in keep)]],
              LAMBDA cl : cl.Databases # <<>>)

ReduceInfra(infra, m, svcs, gws) ==
    LET sql == KeepDatabases(infra.SQLClusters, UsedDBs(m, svcs))
        redis == KeepDatabases(infra.RedisClusters, UsedCaches(m, svcs))
        pubsub == SelectSeq(
            [i \in DOMAIN infra.PubSubClusters |->
               [infra.PubSubClusters[i] EXCEPT
                  !.Topics = SelectSeq(@, LAMBDA t : t.EncoreName \in UsedTopics(m, svcs)),
                  !.Subscriptions = SelectSeq(@, LAMBDA sub :
                      <<sub.TopicEncoreName, sub.SubscriptionEncoreName>> \in UsedSubs(m, svcs))]],
            LAMBDA cl : cl.Topics # <<>>)
        buckets == SelectSeq(
            [i \in DOMAIN infra.BucketClusters |->
               [infra.BucketClusters[i] EXCEPT
                  !.Buckets = SelectSeq(@, LAMBDA bk : bk.EncoreName \in UsedBuckets(m, svcs))]],
            LAMBDA cl : cl.Buckets # <<>>)
    IN  [Gateways |-> SelectSeq(infra.Gateways, LAMBDA gw : gw.EncoreName \in gws),
         PubSubClusters |-> pubsub,
         SQLClusters |-> sql,
         SQLRoles |-> SelectSeq(infra.SQLRoles, LAMBDA r : r.Rid \in PoolRoleRids(sql)),
         RedisClusters |-> redis,
         RedisRoles |-> SelectSeq(infra.RedisRoles, LAMBDA r : r.Rid \in PoolRoleRids(redis)),
         BucketClusters |-> buckets,
         AppSecrets |-> SelectSeq(infra.AppSecrets,
                                  LAMBDA sec : sec.EncoreName \in UsedSecrets(m, svcs))]

\* Deployment(rid).ServiceDiscovery(sd).HostsServices(svcs).HostsGateways(gws)
\* [.ReduceWithMeta(m)].BuildRuntimeConfig(); reduceWith is <<m>> or <<>>.
BuildRuntimeConfig(b, rid, sd, svcs, gws, reduceWith) ==
    LET known == /\ \A i \in DOMAIN svcs :
                      \E j \in DOMAIN b.ServiceConfigs : b.ServiceConfigs[j].Name = svcs[i]
                 /\ \A i \in DOMAIN gws :
                      \E j \in DOMAIN b.Infra.Gateways : b.Infra.Gateways[j].EncoreName = gws[i]
        infra == IF reduceWith # <<>>
                 THEN ReduceInfra(b.Infra, reduceWith[1], Range(svcs), Range(gws))
                 ELSE b.Infra
    IN  IF ~known THEN [ok |-> FALSE, val |-> <<>>]
        ELSE [ok |-> TRUE,
              val |-> <<[Environment |-> b.Env,
                         Infra |-> infra,
                         EncorePlatform |-> [PlatformSigningKeys |-> b.PlatformSigningKeys],
                         Deployment |->
                           [Rid |-> rid, DeployId |-> b.DeployID, DeployedAt |-> b.DeployedAt,
                            HostedServices |-> SelectSeq(b.ServiceConfigs,
                                                         LAMBDA sc : sc.Name \in Range(svcs)),
                            HostedGateways |-> Range(gws),
                            ServiceDiscovery |-> sd,
                            AuthMethods |-> b.AuthMethods,
                            GracefulShutdown |-> b.GracefulShutdown,
                            Tracing |-> b.Tracing]]>>]

(***************************************************************************)
(* Environment variables and their encodings.                              *)
(***************************************************************************)
runtimeCfgEnvVar == "ENCORE_RUNTIME_CONFIG"
appSecretsEnvVar == "ENCORE_APP_SECRETS"
serviceCfgEnvPrefix == "ENCORE_CFG_"
listenEnvVar == "ENCORE_LISTEN_ADDR"
metaEnvVar == "ENCORE_APP_META"

\* fmt.Sprintf("%s=%s", name, value)
EnvVar(name, value) == [name |-> name, value |-> value]

Base64RawURL(x) == [b64 |-> "rawurl", of |-> x]
Base64Std(x) == [b64 |-> "std", of |-> x]

\* strings.ToUpper on the service names of the model.
ToUpper(str) ==
    IF str = "users" THEN "USERS" ELSE IF str = "jobs" THEN "JOBS"
    ELSE IF str = "a" THEN "A" ELSE IF str = "b" THEN "B" ELSE str

\* Every secret name of the model, in ascending order.
NameOrder == <<"S1", "S2", "S3", "S4", "sqldb::db3">>

\* encodeSecretsEnv: the name/value pairs in ascending name order, values encoded.
encodeSecretsEnv(vals) ==
    LET names == SelectSeqBy(NameOrder, DOMAIN vals)
    IN  [i \in DOMAIN names |-> [name |-> names[i], value |-> Base64RawURL(vals[names[i]])]]

\* A plausible slip: every defined secret is encoded, whatever the scope.
encodeSecrets_AllDefined(defined, secretNames) == encodeSecretsEnv(defined)

\* Lines 814-820.
encodeSecrets(defined, secretNames) ==
    encodeSecretsEnv([name \in secretNames |->
                        IF name \in DOMAIN defined THEN defined[name] ELSE ""])

\* encodeConfigs without the lookup of the requested names: a variable for a
\* defined config blob whatever was requested.
encodeConfigs_AllConfigs(cfgs, svcNames) ==
    IF DOMAIN cfgs = {} THEN <<>>
    ELSE LET k == CHOOSE k \in DOMAIN cfgs : TRUE
         IN  <<EnvVar(serviceCfgEnvPrefix \o ToUpper(k), Base64RawURL(cfgs[k]))>>

\* Lines 822-840.
RECURSIVE encodeConfigs(_, _)
encodeConfigs(cfgs, svcNames) ==
    IF svcNames = <<>> THEN <<>>
    ELSE IF Head(svcNames) \notin DOMAIN cfgs
         THEN encodeConfigs(cfgs, Tail(svcNames))
         ELSE <<EnvVar(serviceCfgEnvPrefix \o ToUpper(Head(svcNames)),
                       Base64RawURL(cfgs[Head(svcNames)]))>>
              \o encodeConfigs(cfgs, Tail(svcNames))

\* The legacy JSON-shaped configuration: secrets are inlined as plaintext.
ToLegacy(rt) ==
    [AppSlug |-> IF rt.Environment = <<>> THEN "" ELSE rt.Environment[1].AppSlug,
     AuthKeys |-> [i \in DOMAIN rt.EncorePlatform.PlatformSigningKeys |->
                     [KeyID |-> rt.EncorePlatform.PlatformSigningKeys[i].Id,
                      Data |-> rt.EncorePlatform.PlatformSigningKeys[i].Data.Embedded]],
     SQLRoles |-> [i \in DOMAIN rt.Infra.SQLRoles |->
                     [User |-> rt.Infra.SQLRoles[i].Username,
                      Password |-> rt.Infra.SQLRoles[i].Password.Embedded]],
     HostedServices |-> [i \in DOMAIN rt.Deployment.HostedServices |->
                           rt.Deployment.HostedServices[i].Name]]

\* The fields of a runtime configuration and of its deployment; the wire form
\* of a message leaves out the optional and repeated fields that are unset.
RuntimeConfigFields == {"Environment", "Infra", "EncorePlatform", "Deployment"}
DeploymentFields ==
    {"Rid", "DeployId", "DeployedAt", "HostedServices", "HostedGateways",
     "ServiceDiscovery", "AuthMethods", "GracefulShutdown", "Tracing"}
UnsetWhenEmpty ==
    {"Environment", "DeployId", "HostedServices", "AuthMethods", "GracefulShutdown", "Tracing"}

DropUnset(msg) ==
    [f \in {g \in DOMAIN msg : g \notin UnsetWhenEmpty \/ msg[g] # <<>>} |-> msg[f]]

FillUnset(wire, fields) ==
    [f \in fields |-> IF f \in DOMAIN wire THEN wire[f] ELSE <<>>]

\* proto.Marshal of a runtime configuration (lines 692, 756).
ProtoMarshal(rt) == [proto |-> DropUnset([rt EXCEPT !.Deployment = DropUnset(@)])]

\* proto.Unmarshal into a runtime configuration.
ProtoUnmarshal(bytes) ==
    [FillUnset(bytes.proto, RuntimeConfigFields) EXCEPT
        !.Deployment = FillUnset(@, DeploymentFields)]

\* A plausible slip: the gzip writer is not closed, the stream has no trailer.
gzipBytes_NotClosed(data) == [gzip |-> data, closed |-> FALSE]

\* Lines 880-886.
gzipBytes(data) == [gzip |-> data, closed |-> TRUE]

\* Reading a gzip stream to its end: fails on a stream without trailer.
Gunzip(z) ==
    IF "gzip" \in DOMAIN z /\ z.closed THEN [ok |-> TRUE, val |-> z.gzip]
    ELSE [ok |-> FALSE, val |-> <<>>]

\* Decoding with the standard base64 alphabet, padded.
Base64StdDecode(x) ==
    IF x.b64 = "std" THEN [ok |-> TRUE, val |-> x.of] ELSE [ok |-> FALSE, val |-> <<>>]

\* Lines 692-697 / 756-761 and 703-711 / 767-776.
EncodeRuntimeConfig(rt, useRuntimeConfigV2) ==
    IF useRuntimeConfigV2
    THEN [prefix |-> "gzip:", payload |-> Base64Std(gzipBytes(ProtoMarshal(rt)))]
    ELSE [prefix |-> "", payload |-> Base64RawURL([json |-> ToLegacy(rt)])]

\* What a consumer of the current encoding does with the variable's value:
\* <<rt>>, or <<>> when a step fails.
DecodeRuntimeConfig(value) ==
    IF value.prefix # "gzip:" THEN <<>>
    ELSE LET raw == Base64StdDecode(value.payload)
         IN  IF ~raw.ok THEN <<>>
             ELSE IF ~Gunzip(raw.val).ok THEN <<>>
             ELSE <<ProtoUnmarshal(Gunzip(raw.val).val)>>

\* Lines 722-729 / 782-789: the metadata variable.
EncodeMeta(m) == [prefix |-> "gzip:", payload |-> Base64Std(gzipBytes([proto |-> m]))]

\* A plausible slip: the runtime-config variable is appended outside the test
\* for a runtime configuration.
ProcEnvs_AlwaysRuntimeVar(proc, useRuntimeConfigV2, legacyOk, m, inf) ==
    [err |-> "",
     env |-> <<EnvVar(listenEnvVar, proc.ListenAddr)>> \o proc.ExtraEnv
             \o <<EnvVar(runtimeCfgEnvVar,
                         IF proc.Runtime # <<>>
                         THEN EncodeRuntimeConfig(proc.Runtime[1], useRuntimeConfigV2)
                         ELSE [prefix |-> "", payload |-> Base64RawURL("")])>>]

\* Lines 747-797; legacyOk is whether rtconfgen.ToLegacy succeeds.
ProcEnvs(proc, useRuntimeConfigV2, legacyOk, m, inf) ==
    IF proc.Runtime # <<>> /\ ~useRuntimeConfigV2 /\ ~legacyOk
    THEN [err |-> "failed to generate runtime config", env |-> <<>>]
    ELSE [err |-> "",
          env |-> <<EnvVar(listenEnvVar, proc.ListenAddr)>> \o proc.ExtraEnv
                  \o (IF proc.Runtime # <<>>
                      THEN <<EnvVar(runtimeCfgEnvVar,
                                    EncodeRuntimeConfig(proc.Runtime[1], useRuntimeConfigV2))>>
                      ELSE <<>>)
                  \o (IF inf.IncludeMetaEnv THEN <<EnvVar(metaEnvVar, EncodeMeta(m))>> ELSE <<>>)
                  \o (IF inf.RuntimeLib # ""
                      THEN <<EnvVar("ENCORE_RUNTIME_LIB", inf.RuntimeLib)>> ELSE <<>>)]

(***************************************************************************)
(* Results of the entry points.                                            *)
(***************************************************************************)
\* services, gateways, proc, conf hold <<value>>, or <<>> for nil.
NoResult ==
    [state |-> "none", entry |-> "", err |-> "", services |-> <<>>, gateways |-> <<>>,
     proc |-> <<>>, conf |-> <<>>, envs |-> <<>>]

ErrResult(msg) == [NoResult EXCEPT !.state = "err", !.err = msg]

ProcConfig(rt, listenAddr, extraEnv) ==
    [Runtime |-> rt, ListenAddr |-> listenAddr, ExtraEnv |-> extraEnv]

\* A plausible slip: the error is returned together with what the builder holds.
EntryInitFailed_Partial(b, msg) ==
    [ErrResult(msg) EXCEPT
       !.proc = <<ProcConfig(BuildRuntimeConfig(b, "", <<>>, <<>>, <<>>, <<>>).val, 0, <<>>)>>]

\* Lines 474-476, 551-553, 589-591, 669-671: an entry point whose initialize failed.
EntryInitFailed(b, msg) == ErrResult(msg)

\* proxy.RegisterService: the base URL other processes reach the service at.
RegisterService(name) == "http://proxy/" \o name

\* A plausible slip: the discovery entry is built without the generator's keys.
Location_NoKeys(name, keys) ==
    [BaseUrl |-> RegisterService(name),
     AuthMethods |-> <<[EncoreAuth |-> [AuthKeys |-> <<>>]]>>]

\* Lines 492-503 / 613-624: the discovery entry of one service.
Location(name, keys) ==
    [BaseUrl |-> RegisterService(name),
     AuthMethods |-> <<[EncoreAuth |-> [AuthKeys |-> keys]]>>]

IndexOf(seq, x) == CHOOSE i \in DOMAIN seq : seq[i] = x

(***************************************************************************)
(* The state machine: callers, the Once guarding initialize, the build     *)
(* body stage by stage, and the entry points.                              *)
(***************************************************************************)
inputs == <<md, DefinedSecrets, SvcConfigs, infraCfg>>
pure == <<fnArgs, fnRes>>

NoHist == [afterFail |-> FALSE, ranBody |-> FALSE, initErr |-> FALSE]

Init ==
    /\ \E w \in Worlds :
          /\ md = w.md
          /\ DefinedSecrets = w.DefinedSecrets
          /\ SvcConfigs = w.SvcConfigs
          /\ infraCfg = w.infraCfg
    /\ done = 0 /\ mu = 0
    /\ conf = NilBuilder /\ authKeys = <<>>
    /\ nextRid = 0
    /\ stage = "idle" /\ idx = 0 /\ sqlCluster = "" /\ lookups = <<>>
    /\ pc = [c \in Callers |-> "idle"]
    /\ ret = [c \in Callers |-> NoResult]
    /\ calls = 0
    /\ callHist = [c \in Callers |-> NoHist]
    /\ builds = [started |-> 0, completed |-> 0, failed |-> 0]
    /\ graphs = {}
    /\ proxy = EmptyMap
    /\ fnArgs = <<>> /\ fnRes = <<>>

\* A caller invokes one of the four entry points.  They all start with the
\* same call of initialize, so which one it is is left open until that returns.
Call(c) ==
    /\ pc[c] = "idle" /\ calls < MaxCalls
    /\ calls' = calls + 1
    /\ pc' = [pc EXCEPT ![c] = "once"]
    /\ callHist' = [callHist EXCEPT ![c] = [NoHist EXCEPT !.afterFail = builds.failed > 0]]
    /\ UNCHANGED <<inputs, done, mu, conf, authKeys, nextRid, stage, idx, sqlCluster,
                   lookups, ret, builds, graphs, proxy, pure>>

\* initialize returned nil to caller c: it goes on with the graph it finds.
InitReturnedNil(c, b) ==
    /\ pc' = [pc EXCEPT ![c] = "post"]
    /\ graphs' = graphs \cup {b}

\* A plausible slip: the build body runs on every call.
OnceDoRuns_Always(d, failed) == TRUE

\* A plausible slip: a failure is remembered, the body is never run again.
OnceDoRuns_FailTerminal(d, failed) == d = 0 /\ failed = 0

\* Lines 45, 97: initOnce.Do runs the body iff no run has succeeded yet.
OnceDoRuns(d, failed) == d = 0

\* Once.Do, fast path: done is read without the lock.
OnceFast(c) ==
    /\ pc[c] = "once"
    /\ IF done = 1
       THEN InitReturnedNil(c, conf)
       ELSE pc' = [pc EXCEPT ![c] = "lock"] /\ UNCHANGED graphs
    /\ UNCHANGED <<inputs, done, mu, conf, authKeys, nextRid, stage, idx, sqlCluster,
                   lookups, ret, calls, callHist, builds, proxy, pure>>

\* Once.Do, slow path: take the lock, then run the body or return nil.
OnceLock(c) ==
    /\ pc[c] = "lock" /\ mu = 0
    /\ IF OnceDoRuns(done, builds.failed)
       THEN /\ mu' = c
            /\ pc' = [pc EXCEPT ![c] = "body"]
            /\ stage' = "start"
            /\ lookups' = <<>>
            /\ builds' = [builds EXCEPT !.started = @ + 1]
            /\ nextRid' = XidEpoch(builds.started + 1)
            /\ callHist' = [callHist EXCEPT ![c].ranBody = TRUE]
            /\ UNCHANGED graphs
       ELSE /\ InitReturnedNil(c, conf)
            /\ UNCHANGED <<mu, stage, lookups, builds, callHist, nextRid>>
    /\ UNCHANGED <<inputs, done, conf, authKeys, idx, sqlCluster,
                   ret, calls, proxy, pure>>

Lookup(name, ok) == [name |-> name, ok |-> ok]

\* Where the build body goes next: stages without work are skipped.
AtBuckets(m) == IF Len(m.Buckets) > 0 THEN <<"buckets", 1>> ELSE <<"secrets", 1>>
AtRedis(m, i) == IF i <= Len(m.CacheClusters) THEN <<"redis", i>> ELSE AtBuckets(m)
AtSQLDB(m, i) == IF i <= Len(m.SqlDatabases) THEN <<"sqldb", i>> ELSE AtRedis(m, 1)
AtSQL(m) == IF Len(m.SqlDatabases) > 0 THEN <<"sqlserver", 1>> ELSE AtRedis(m, 1)
AtPubSub(m) == IF Len(m.PubsubTopics) > 0 THEN <<"pubsub", 1>> ELSE AtSQL(m)
AtGateway(m, i) == IF i <= Len(m.Gateways) THEN <<"gateways", i>> ELSE AtPubSub(m)

\* The entry points that call initialize.
EntryPoints ==
    {"ProcPerService", "AllInOneProc", "ProcPerServiceWithNewRuntimeConfig", "ForTests"}

\* The build body returns an error: the lock is released, done stays 0, and the
\* entry point that called initialize returns the error.
InitFail(c, b, n, lk, msg) ==
    /\ conf' = b /\ nextRid' = n /\ lookups' = lk
    /\ mu' = 0 /\ stage' = "idle" /\ idx' = 0
    /\ pc' = [pc EXCEPT ![c] = "ret"]
    /\ \E e \in EntryPoints : ret' = [ret EXCEPT ![c] = [EntryInitFailed(b, msg) EXCEPT !.entry = e]]
    /\ builds' = [builds EXCEPT !.failed = @ + 1]
    /\ callHist' = [callHist EXCEPT ![c].initErr = TRUE]
    /\ UNCHANGED <<inputs, done, calls, graphs, proxy, pure>>

\* The build body goes on to the stage at next.
InitGo(c, b, n, lk, next) ==
    /\ conf' = b /\ nextRid' = n /\ lookups' = lk
    /\ stage' = next[1] /\ idx' = next[2]
    /\ UNCHANGED <<inputs, done, mu, pc, ret, calls, callHist, builds, graphs,
                   proxy, pure>>

\* The stage ended with result r.
InitStep(c, r, lk, next) ==
    IF r.err # "" THEN InitFail(c, r.b, r.n, lk, r.err) ELSE InitGo(c, r.b, r.n, lk, next)

InBody(c, st) == pc[c] = "body" /\ mu = c /\ stage = st

\* A plausible slip: the error of a lookup is dropped and the stage goes on.
LookupFailed_Ignored(ok) == FALSE

\* Lines 146, 180, 210, 259, 325, 357, 417: if err != nil { return ... }
LookupFailed(ok) == ~ok

\* Lines 98-176: from the new builder to the default graceful shutdown.
InitStart(c) ==
    /\ InBody(c, "start")
    /\ \E ok \in BOOLEAN :
         LET p == StagePlatform(infraCfg, builds.started, nextRid)
             lk == Append(lookups, Lookup("AppFile", ok))
         IN  /\ authKeys' = AuthKeysOf(infraCfg)
             /\ IF LookupFailed(ok)
                THEN InitFail(c, p.b, p.n, lk, "failed to get app's build settings")
                ELSE InitGo(c, StageServices(p.b, md, infraCfg, authKeys'), p.n, lk,
                            AtGateway(md, 1))
    /\ UNCHANGED sqlCluster

\* Lines 178-206: one iteration of the gateway loop.
InitGateway(c) ==
    /\ InBody(c, "gateways")
    /\ \E ok \in BOOLEAN :
         LET lk == Append(lookups, Lookup("GlobalCORS", ok))
         IN  IF LookupFailed(ok)
             THEN InitFail(c, conf, nextRid, lk, "failed to generate global CORS config")
             ELSE InitStep(c, StageGateway(conf, md.Gateways[idx], infraCfg, infraCfg.CORS,
                                           nextRid),
                           lk, AtGateway(md, idx + 1))
    /\ UNCHANGED <<authKeys, sqlCluster>>

\* Lines 208-255: the pub/sub stage.
InitPubSub(c) ==
    /\ InBody(c, "pubsub")
    /\ \E ok \in BOOLEAN :
         LET lk == Append(lookups, Lookup("PubSubProviderConfig", ok))
         IN  IF LookupFailed(ok)
             THEN InitFail(c, conf, nextRid, lk, "failed to generate pubsub provider config")
             ELSE InitStep(c, StagePubSub(conf, md, infraCfg, nextRid), lk, AtSQL(md))
    /\ UNCHANGED <<authKeys, sqlCluster>>

\* Lines 257-279: the managed SQL cluster.
InitSQLServer(c) ==
    /\ InBody(c, "sqlserver")
    /\ \E ok \in BOOLEAN :
         LET lk == Append(lookups, Lookup("SQLServerConfig", ok))
         IN  IF LookupFailed(ok)
             THEN /\ InitFail(c, conf, nextRid, lk, "failed to generate SQL server config")
                  /\ UNCHANGED sqlCluster
             ELSE /\ InitStep(c, StageSQLServer(conf, infraCfg, nextRid), lk, AtSQLDB(md, 1))
                  /\ sqlCluster' = newRid(nextRid + 1)
    /\ UNCHANGED authKeys

\* Lines 281-351: one iteration of the database loop.
InitSQLDatabase(c) ==
    /\ InBody(c, "sqldb")
    /\ LET db == md.SqlDatabases[idx]
           key == "sqldb::" \o db.Name
       IN  IF key \in DOMAIN DefinedSecrets
           THEN InitStep(c, StageExternalDB(conf, db, DefinedSecrets[key], nextRid),
                         lookups, AtSQLDB(md, idx + 1))
           ELSE \E ok \in BOOLEAN :
                  LET lk == Append(lookups, Lookup("SQLDatabaseConfig", ok))
                  IN  IF LookupFailed(ok)
                      THEN InitFail(c, conf, nextRid, lk,
                                    "failed to generate SQL database config")
                      ELSE InitStep(c, StageManagedDB(conf, sqlCluster,
                                                      SQLDatabaseConfig(infraCfg, db), nextRid),
                                    lk, AtSQLDB(md, idx + 1))
    /\ UNCHANGED <<authKeys, sqlCluster>>

\* Lines 354-413: one iteration of the cache-cluster loop.
InitRedis(c) ==
    /\ InBody(c, "redis")
    /\ \E ok \in BOOLEAN :
         LET lk == Append(lookups, Lookup("RedisConfig", ok))
         IN  IF LookupFailed(ok)
             THEN InitFail(c, conf, nextRid, lk, "failed to generate Redis cluster config")
             ELSE InitStep(c, StageRedis(conf, RedisServerConfig(infraCfg, md.CacheClusters[idx]),
                                         RedisDatabaseConfig(infraCfg, md.CacheClusters[idx]),
                                         nextRid),
                           lk, AtRedis(md, idx + 1))
    /\ UNCHANGED <<authKeys, sqlCluster>>

\* Lines 415-451: the bucket stage.
InitBuckets(c) ==
    /\ InBody(c, "buckets")
    /\ \E ok \in BOOLEAN :
         LET lk == Append(lookups, Lookup("BucketProviderConfig", ok))
         IN  IF LookupFailed(ok)
             THEN InitFail(c, conf, nextRid, lk, "failed to generate bucket provider config")
             ELSE InitStep(c, StageBuckets(conf, md, infraCfg, nextRid), lk, <<"secrets", 1>>)
    /\ UNCHANGED <<authKeys, sqlCluster>>

\* Lines 453-461: the app secrets; the body returns nil and Once.Do sets done.
InitSecrets(c) ==
    /\ InBody(c, "secrets")
    /\ \E order \in Orders(DOMAIN DefinedSecrets) :
         LET r == StageSecrets(conf, order, DefinedSecrets, nextRid)
         IN  /\ conf' = r.b /\ nextRid' = r.n
             /\ InitReturnedNil(c, r.b)
    /\ done' = 1 /\ mu' = 0
    /\ stage' = "idle" /\ idx' = 0
    /\ builds' = [builds EXCEPT !.completed = @ + 1]
    /\ UNCHANGED <<inputs, authKeys, sqlCluster, lookups, ret, calls, callHist,
                   proxy, pure>>

(***************************************************************************)
(* The entry points, after initialize has returned nil.  An address probe  *)
(* (freeLocalhostAddress) gives any port or fails: addr[k] is the port of  *)
(* the k-th probe and failAt the probe that fails (0 for none).            *)
(***************************************************************************)
AfterInit(c) == pc[c] = "post"

Returns(c, name, r) ==
    /\ ret' = [ret EXCEPT ![c] = [r EXCEPT !.entry = name]]
    /\ pc' = [pc EXCEPT ![c] = "ret"]

Registers(svcs, registered, addr) ==
    proxy' = [n \in DOMAIN proxy \cup registered |->
                IF n \in registered THEN addr[IndexOf(svcs, n)] ELSE proxy[n]]

Discovery(svcs, keys) == [n \in Range(svcs) |-> Location(n, keys)]

\* Lines 508-512 / 628-632: the deployment of one service.
ServiceDeployment(b, rid, sd, svc, m) == BuildRuntimeConfig(b, rid, sd, <<svc>>, <<>>, <<m>>)

\* Line 532: the deployment of one gateway in ProcPerService.
GatewayDeployment(b, rid, sd, gw, m) == BuildRuntimeConfig(b, rid, sd, <<>>, <<gw>>, <<m>>)

\* Lines 651-655: the deployment of one gateway in ProcPerServiceWithNewRuntimeConfig.
GatewayDeploymentNew(b, rid, sd, gw, m) == BuildRuntimeConfig(b, rid, sd, <<>>, <<gw>>, <<>>)

\* Lines 517-527: the process configuration of one service.
ServiceProc(rt, listenAddr, m, defined, cfgs, svc) ==
    ProcConfig(rt, listenAddr,
       <<EnvVar(appSecretsEnvVar, encodeSecrets(defined, secretsUsedByServices(m, <<svc>>)))>>
       \o encodeConfigs(cfgs, <<svc>>))

\* A plausible slip: the gateway process gets the app secrets like a service.
GatewayProc_WithSecrets(rt, listenAddr) ==
    ProcConfig(rt, listenAddr, <<EnvVar(appSecretsEnvVar, encodeSecretsEnv(DefinedSecrets))>>)

\* Lines 540-544: the process configuration of a gateway in ProcPerService.
GatewayProc(rt, listenAddr) == ProcConfig(rt, listenAddr, <<>>)

\* A plausible slip: service configs are not looked at.
ConfigsUnsupported_Never(cfgs) == FALSE

\* Lines 593-595: if len(g.SvcConfigs) > 0.
ConfigsUnsupported(cfgs) == DOMAIN cfgs # {}

\* Lines 473-548.
ProcPerService(c) ==
    /\ AfterInit(c)
    /\ LET svcs == SvcNames(md)
           gws == GatewayNames(md)
           ns == Len(svcs)
           ng == Len(gws)
           sd == Discovery(svcs, authKeys)
           svcConf == [i \in 1..ns |->
                         ServiceDeployment(conf, newRid(nextRid + i), sd, svcs[i], md)]
           gwConf == [j \in 1..ng |->
                        GatewayDeployment(conf, newRid(nextRid + ns + j), sd, gws[j], md)]
           allOk == (\A i \in 1..ns : svcConf[i].ok) /\ (\A j \in 1..ng : gwConf[j].ok)
       IN \E addr \in [1..(ns + ng) -> Ports], failAt \in 0..(ns + ng) :
            LET registered == IF failAt \in 1..ns THEN {svcs[i] : i \in 1..(failAt - 1)}
                              ELSE Range(svcs)
                \* a gateway's deployment is built before its address is probed
                nBuilt == IF failAt = 0 THEN ns + ng ELSE IF failAt <= ns THEN 0 ELSE failAt
            IN  /\ Registers(svcs, registered, addr)
                /\ nextRid' = nextRid + nBuilt
                /\ Returns(c, "ProcPerService",
                     IF failAt # 0 THEN ErrResult("failed to find free localhost address")
                     ELSE IF ~allOk THEN ErrResult("failed to generate runtime config")
                     ELSE [NoResult EXCEPT
                             !.state = "ok",
                             !.services = <<[n \in Range(svcs) |->
                                 ServiceProc(svcConf[IndexOf(svcs, n)].val,
                                             addr[IndexOf(svcs, n)], md, DefinedSecrets,
                                             SvcConfigs, n)]>>,
                             !.gateways = <<[n \in Range(gws) |->
                                 GatewayProc(gwConf[IndexOf(gws, n)].val,
                                             addr[ns + IndexOf(gws, n)])]>>])
    /\ UNCHANGED <<inputs, done, mu, conf, authKeys, stage, idx, sqlCluster, lookups,
                   calls, callHist, builds, graphs, pure>>

\* Lines 550-586.
AllInOneProc(c) ==
    /\ AfterInit(c)
    /\ LET svcs == SvcNames(md)
           gws == GatewayNames(md)
           rt == BuildRuntimeConfig(conf, newRid(nextRid + 1), EmptyMap, svcs, gws, <<md>>)
       IN \E ok \in BOOLEAN, p \in Ports :
             /\ nextRid' = nextRid + 1
             /\ Returns(c, "AllInOneProc",
                  IF ~rt.ok THEN ErrResult("failed to generate runtime config")
                  ELSE IF ~ok THEN ErrResult("failed to find free localhost address")
                  ELSE [NoResult EXCEPT
                          !.state = "ok",
                          !.proc = <<ProcConfig(rt.val, p,
                                       <<EnvVar(appSecretsEnvVar, encodeSecretsEnv(DefinedSecrets))>>
                                       \o encodeConfigs(SvcConfigs, svcs))>>])
    /\ UNCHANGED <<inputs, done, mu, conf, authKeys, stage, idx, sqlCluster, lookups,
                   calls, callHist, builds, graphs, proxy, pure>>

\* Lines 588-666.
ProcPerServiceWithNewRuntimeConfig(c) ==
    /\ AfterInit(c)
    /\ IF ConfigsUnsupported(SvcConfigs)
       THEN /\ Returns(c, "ProcPerServiceWithNewRuntimeConfig",
                       ErrResult("service configs not yet supported"))
            /\ UNCHANGED <<nextRid, proxy>>
       ELSE
         LET svcs == SvcNames(md)
             gws == GatewayNames(md)
             ns == Len(svcs)
             ng == Len(gws)
             sd == Discovery(svcs, authKeys)
             svcConf == [i \in 1..ns |->
                           ServiceDeployment(conf, newRid(nextRid + i), sd, svcs[i], md)]
             gwConf == [j \in 1..ng |->
                          GatewayDeploymentNew(conf, newRid(nextRid + ns + j), sd, gws[j], md)]
             allOk == (\A i \in 1..ns : svcConf[i].ok) /\ (\A j \in 1..ng : gwConf[j].ok)
             \* the named result conf holds the configuration built last
             last == IF ng > 0 THEN gwConf[ng].val
                     ELSE IF ns > 0 THEN svcConf[ns].val ELSE <<>>
         IN \E addr \in [1..(ns + ng) -> Ports], failAt \in 0..(ns + ng) :
              LET registered == IF failAt \in 1..ns THEN {svcs[i] : i \in 1..(failAt - 1)}
                                ELSE Range(svcs)
                  \* a gateway's address is probed before its deployment is built
                  nBuilt == IF failAt = 0 THEN ns + ng
                            ELSE IF failAt <= ns THEN 0 ELSE failAt - 1
              IN  /\ Registers(svcs, registered, addr)
                  /\ nextRid' = nextRid + nBuilt
                  /\ Returns(c, "ProcPerServiceWithNewRuntimeConfig",
                       IF failAt # 0 THEN ErrResult("failed to find free localhost address")
                       ELSE IF ~allOk THEN ErrResult("failed to generate runtime config")
                       ELSE [NoResult EXCEPT
                               !.state = "ok",
                               !.conf = last,
                               !.services = <<[n \in Range(svcs) |->
                                   ProcConfig(svcConf[IndexOf(svcs, n)].val,
                                              addr[IndexOf(svcs, n)], <<>>)]>>,
                               !.gateways = <<[n \in Range(gws) |->
                                   ProcConfig(gwConf[IndexOf(gws, n)].val,
                                              addr[ns + IndexOf(gws, n)], <<>>)]>>])
    /\ UNCHANGED <<inputs, done, mu, conf, authKeys, stage, idx, sqlCluster, lookups,
                   calls, callHist, builds, graphs, pure>>

\* Lines 668-737.
ForTests(c) ==
    /\ AfterInit(c)
    /\ LET svcs == SvcNames(md)
           gws == GatewayNames(md)
           rt == BuildRuntimeConfig(conf, newRid(nextRid + 1), EmptyMap, svcs, gws, <<md>>)
       IN \E newRuntimeConf \in BOOLEAN :
           /\ nextRid' = nextRid + 1
           /\ Returns(c, "ForTests",
                IF ~rt.ok THEN ErrResult("failed to generate runtime config")
                ELSE [NoResult EXCEPT
                        !.state = "ok",
                        !.envs =
                           <<EnvVar(appSecretsEnvVar, encodeSecretsEnv(DefinedSecrets)),
                             EnvVar(runtimeCfgEnvVar,
                                    EncodeRuntimeConfig(rt.val[1], newRuntimeConf))>>
                           \o encodeConfigs(SvcConfigs, svcs)
                           \o (IF infraCfg.IncludeMetaEnv
                               THEN <<EnvVar(metaEnvVar, EncodeMeta(md))>>
                               ELSE <<>>)
                           \o (IF infraCfg.RuntimeLib # ""
                               THEN <<EnvVar("ENCORE_RUNTIME_LIB", infraCfg.RuntimeLib)>>
                               ELSE <<>>)])
    /\ UNCHANGED <<inputs, done, mu, conf, authKeys, stage, idx, sqlCluster, lookups,
                   calls, callHist, builds, graphs, proxy, pure>>

\* The caller takes the result; it may call again.
Return(c) ==
    /\ pc[c] = "ret"
    /\ pc' = [pc EXCEPT ![c] = "idle"]
    /\ ret' = [ret EXCEPT ![c] = NoResult]
    /\ callHist' = [callHist EXCEPT ![c] = NoHist]
    /\ UNCHANGED <<inputs, done, mu, conf, authKeys, nextRid, stage, idx, sqlCluster,
                   lookups, calls, builds, graphs, proxy, pure>>

Next ==
    \E c \in Callers :
        \/ Call(c)
        \/ OnceFast(c)
        \/ OnceLock(c)
        \/ InitStart(c)
        \/ InitGateway(c)
        \/ InitPubSub(c)
        \/ InitSQLServer(c)
        \/ InitSQLDatabase(c)
        \/ InitRedis(c)
        \/ InitBuckets(c)
        \/ InitSecrets(c)
        \/ ProcPerService(c)
        \/ AllInOneProc(c)
        \/ ProcPerServiceWithNewRuntimeConfig(c)
        \/ ForTests(c)
        \/ Return(c)

Spec == Init /\ [][Next]_vars

(***************************************************************************)
(* Secret scoping on its own: the arguments are drawn from bounded sets,   *)
(* the one action applies secretsUsedByServices to them.                   *)
(***************************************************************************)
PureSecretNames == {"S1", "S2"}
PureOwners == {"", "A", "B"}
PurePkgs == {Pkg(o, secs) : o \in PureOwners, secs \in SeqsUpTo(PureSecretNames, MaxPkgSecrets)}
PureWorld == CHOOSE w \in Worlds : DOMAIN w.SvcConfigs # {}

InitPure ==
    /\ md = PureWorld.md /\ DefinedSecrets = PureWorld.DefinedSecrets
    /\ SvcConfigs = PureWorld.SvcConfigs /\ infraCfg = PureWorld.infraCfg
    /\ done = 0 /\ mu = 0
    /\ conf = NilBuilder /\ authKeys = <<>>
    /\ nextRid = 0
    /\ stage = "idle" /\ idx = 0 /\ sqlCluster = "" /\ lookups = <<>>
    /\ pc = [c \in Callers |-> "idle"]
    /\ ret = [c \in Callers |-> NoResult]
    /\ calls = 0
    /\ callHist = [c \in Callers |-> NoHist]
    /\ builds = [started |-> 0, completed |-> 0, failed |-> 0]
    /\ graphs = {}
    /\ proxy = EmptyMap
    /\ \E pkgs \in SeqsUpTo(PurePkgs, MaxPkgs), names \in SeqsUpTo({"A", "B"}, MaxSvcNames) :
          fnArgs = <<[m |-> [Pkgs |-> pkgs], svcNames |-> names]>>
    /\ fnRes = <<>>

\* Lines 842-858, applied to the arguments drawn.
ScopeSecrets ==
    /\ fnArgs # <<>> /\ fnRes = <<>>
    /\ fnRes' = <<secretsUsedByServices(fnArgs[1].m, fnArgs[1].svcNames)>>
    /\ UNCHANGED <<inputs, done, mu, conf, authKeys, nextRid, stage, idx, sqlCluster,
                   lookups, pc, ret, calls, callHist, builds, graphs, proxy, fnArgs>>

NextPure == ScopeSecrets

SpecPure == InitPure /\ [][NextPure]_vars

(***************************************************************************)
(* Properties.                                                             *)
(***************************************************************************)
\* The secrets declared by the packages of m that are service-agnostic or owned
\* by a service in owners.
DeclaredFor(m, owners) ==
    {s \in UNION {Range(m.Pkgs[i].Secrets) : i \in DOMAIN m.Pkgs} :
        \E i \in DOMAIN m.Pkgs :
            /\ m.Pkgs[i].ServiceName = "" \/ m.Pkgs[i].ServiceName \in owners
            /\ s \in Range(m.Pkgs[i].Secrets)}

\* C1: for every metadata and every list of service names, secretsUsedByServices
\* returns exactly the secrets declared by at least one package that is
\* service-agnostic or owned by a requested service.
C1_ScopeSecretsExact ==
    fnRes # <<>> =>
        fnRes[1] = DeclaredFor(fnArgs[1].m, Range(fnArgs[1].svcNames))

\* C1 witness: package A declares S1, a service-agnostic package declares S2, and
\* the secrets of {B} have been computed: S2 without S1.
C1_Witness ==
    /\ fnRes = <<{"S2"}>>
    /\ fnArgs[1].m.Pkgs = <<Pkg("A", <<"S1">>), Pkg("", <<"S2">>)>>
    /\ fnArgs[1].svcNames = <<"B">>

\* A caller holds the successful result of entry point e.
Succeeded(c, e) == pc[c] = "ret" /\ ret[c].state = "ok" /\ ret[c].entry = e

\* The secret names of the app-secrets variable of process configuration p.
AppSecretNames(p) ==
    UNION {{p.ExtraEnv[i].value[k].name : k \in DOMAIN p.ExtraEnv[i].value} :
           i \in {j \in DOMAIN p.ExtraEnv : p.ExtraEnv[j].name = appSecretsEnvVar}}

\* C2: after a successful ProcPerService the ProcConfig of every declared service S
\* has one app-secrets variable, and it names exactly the secrets declared by S's
\* packages or by service-agnostic packages.
C2_ServiceSecretsScoped ==
    \A c \in Callers :
        Succeeded(c, "ProcPerService") =>
            /\ DOMAIN ret[c].services[1] = Range(SvcNames(md))
            /\ \A svc \in Range(SvcNames(md)) :
                 LET p == ret[c].services[1][svc]
                 IN  /\ Cardinality({j \in DOMAIN p.ExtraEnv :
                                        p.ExtraEnv[j].name = appSecretsEnvVar}) = 1
                     /\ AppSecretNames(p) = DeclaredFor(md, {svc})

\* C2 witness: ProcPerService has succeeded where service A's package declares a
\* secret that service B's process does not get, and both get the shared one.
C2_Witness ==
    \E c \in Callers :
        /\ Succeeded(c, "ProcPerService")
        /\ {"A", "B"} \subseteq DOMAIN ret[c].services[1]
        /\ AppSecretNames(ret[c].services[1]["A"]) = {"S1", "S2"}
        /\ AppSecretNames(ret[c].services[1]["B"]) = {"S2"}

\* The names of the resources a runtime configuration holds.
ConfDatabases(rt) ==
    UNION {{rt.Infra.SQLClusters[i].Databases[j].EncoreName :
               j \in DOMAIN rt.Infra.SQLClusters[i].Databases} :
           i \in DOMAIN rt.Infra.SQLClusters}
ConfTopics(rt) ==
    UNION {{rt.Infra.PubSubClusters[i].Topics[j].EncoreName :
               j \in DOMAIN rt.Infra.PubSubClusters[i].Topics} :
           i \in DOMAIN rt.Infra.PubSubClusters}
ConfCaches(rt) ==
    UNION {{rt.Infra.RedisClusters[i].Databases[j].EncoreName :
               j \in DOMAIN rt.Infra.RedisClusters[i].Databases} :
           i \in DOMAIN rt.Infra.RedisClusters}
ConfBuckets(rt) ==
    UNION {{rt.Infra.BucketClusters[i].Buckets[j].EncoreName :
               j \in DOMAIN rt.Infra.BucketClusters[i].Buckets} :
           i \in DOMAIN rt.Infra.BucketClusters}
ConfSecrets(rt) == {rt.Infra.AppSecrets[i].EncoreName : i \in DOMAIN rt.Infra.AppSecrets}

\* rt holds nothing outside what the services svcs use according to the metadata.
OnlyClosure(rt, svcs) ==
    /\ ConfDatabases(rt) \subseteq UsedDBs(md, svcs)
    /\ ConfTopics(rt) \subseteq UsedTopics(md, svcs)
    /\ ConfCaches(rt) \subseteq UsedCaches(md, svcs)
    /\ ConfBuckets(rt) \subseteq UsedBuckets(md, svcs)
    /\ ConfSecrets(rt) \subseteq DeclaredFor(md, svcs)

\* Every service and gateway process of result r holds only its closure.
UnitsOnlyClosure(r) ==
    /\ \A svc \in DOMAIN r.services[1] : OnlyClosure(r.services[1][svc].Runtime[1], {svc})
    /\ \A gw \in DOMAIN r.gateways[1] : OnlyClosure(r.gateways[1][gw].Runtime[1], {})

\* C3: every runtime configuration emitted for a service process or a gateway
\* process by ProcPerService and by ProcPerServiceWithNewRuntimeConfig holds only
\* the databases, topics, caches, buckets and app secrets its hosted services use.
C3_OnlyClosureEmitted ==
    \A c \in Callers :
        (Succeeded(c, "ProcPerService") \/ Succeeded(c, "ProcPerServiceWithNewRuntimeConfig"))
            => UnitsOnlyClosure(ret[c])

\* C3, what does hold: the configurations of ProcPerService and the service
\* configurations of ProcPerServiceWithNewRuntimeConfig hold only the closure.
C3_ReducedOnlyClosure ==
    \A c \in Callers :
        /\ Succeeded(c, "ProcPerService") => UnitsOnlyClosure(ret[c])
        /\ Succeeded(c, "ProcPerServiceWithNewRuntimeConfig") =>
              \A svc \in DOMAIN ret[c].services[1] :
                  OnlyClosure(ret[c].services[1][svc].Runtime[1], {svc})

\* C3 witness: the gateway process of ProcPerServiceWithNewRuntimeConfig holds a
\* database and an app secret although it hosts no service.
C3_Witness ==
    \E c \in Callers :
        /\ Succeeded(c, "ProcPerServiceWithNewRuntimeConfig")
        /\ "api" \in DOMAIN ret[c].gateways[1]
        /\ "db1" \in ConfDatabases(ret[c].gateways[1]["api"].Runtime[1])
        /\ "S1" \in ConfSecrets(ret[c].gateways[1]["api"].Runtime[1])

\* C4: under any interleaving of calls the build body completes successfully at
\* most once and is run by one caller at a time; while it runs no caller has got
\* past initialize; every caller that got past it found the one graph the
\* generator still holds; after the success the body is not started again.
C4_BuildOnce ==
    /\ builds.completed <= 1
    /\ Cardinality({c \in Callers : pc[c] = "body"}) <= 1
    /\ \A c \in Callers : pc[c] = "body" <=> mu = c
    /\ mu # 0 => done = 0 /\ \A c \in Callers : pc[c] # "post"
    /\ graphs \subseteq {conf}
    /\ done = 1 => builds.completed = 1 /\ builds.started = builds.failed + 1

\* C4 witness: two callers are past initialize at once, one ran the body, the other
\* did not, and both found the same graph.
C4_Witness ==
    \E c1, c2 \in Callers :
        /\ pc[c1] = "post" /\ callHist[c1].ranBody
        /\ pc[c2] = "post" /\ ~callHist[c2].ranBody
        /\ builds.completed = 1 /\ graphs = {conf}

\* C5 as stated: of a call made after an initialization failed, initialize
\* neither runs the build body nor returns nil.
C5_FailedInitTerminal ==
    \A c \in Callers :
        callHist[c].afterFail => ~callHist[c].ranBody /\ pc[c] # "post"

\* C5, amended: a failed initialization is not terminal.  initialize returns an
\* error only to the call whose own run of the build body failed, and returns
\* without running the body only once a run has succeeded; so a call made after
\* a failure runs the body again, with a new builder and new lookups.
C5_FailedInitRetried ==
    \A c \in Callers :
        /\ callHist[c].initErr => callHist[c].ranBody
        /\ (pc[c] \in {"post", "ret"} /\ ~callHist[c].ranBody) => done = 1
        /\ pc[c] = "post" => done = 1 /\ ~conf.isNil

\* C5 witness: a call made after a failed initialization ran the build body
\* itself and got nil from initialize.
C5_Witness ==
    \E c \in Callers :
        /\ callHist[c].afterFail /\ callHist[c].ranBody
        /\ pc[c] = "post" /\ builds.failed > 0 /\ done = 1

\* C6: when a lookup of the build body fails, the body ends there: the failed
\* lookup is the last one of that run (no later lookup, no retry), no stage is
\* running, the lock is free and the run has not succeeded.
C6_LookupFailureAborts ==
    /\ \A i \in 1..(Len(lookups) - 1) : lookups[i].ok
    /\ (lookups # <<>> /\ ~lookups[Len(lookups)].ok) =>
          /\ stage = "idle" /\ mu = 0 /\ done = 0
          /\ builds.failed > 0
          /\ \A c \in Callers : pc[c] \notin {"body", "post"}

\* C6 witness: a lookup after the first one has failed and the caller holds the
\* error.
C6_Witness ==
    \E c \in Callers :
        /\ Len(lookups) >= 3 /\ ~lookups[Len(lookups)].ok
        /\ pc[c] = "ret" /\ callHist[c].initErr /\ ret[c].err # ""

\* C7: whenever initialize fails, the entry point that called it returns the
\* error and nil for every other result.
C7_InitFailureReturnsNothing ==
    \A c \in Callers :
        (pc[c] = "ret" /\ callHist[c].initErr) =>
            /\ ret[c].entry \in EntryPoints
            /\ ret[c].state = "err" /\ ret[c].err # ""
            /\ ret[c].services = <<>> /\ ret[c].gateways = <<>>
            /\ ret[c].proc = <<>> /\ ret[c].conf = <<>> /\ ret[c].envs = <<>>

\* C7 witness: initialize failed with gateways and a SQL cluster already in the
\* builder, and ForTests returned.
C7_Witness ==
    \E c \in Callers :
        /\ pc[c] = "ret" /\ callHist[c].initErr /\ ret[c].entry = "ForTests"
        /\ conf.Infra.Gateways # <<>> /\ conf.Infra.SQLClusters # <<>>

\* The Rids of a sequence of resources.
Rids(seq) == {seq[i].Rid : i \in DOMAIN seq}

\* Every connection pool of infra names a role that infra holds.
NoDanglingRole(infra) ==
    /\ PoolRoleRids(infra.SQLClusters) \subseteq Rids(infra.SQLRoles)
    /\ PoolRoleRids(infra.RedisClusters) \subseteq Rids(infra.RedisRoles)

\* The runtime configurations a result holds, each with the services it hosts,
\* the gateways it hosts and whether it was reduced with the metadata.
Unit(rt, svcs, gws, reduced) == [rt |-> rt, svcs |-> svcs, gws |-> gws, reduced |-> reduced]

UnitsOf(r) ==
    IF r.state # "ok" THEN {}
    ELSE UNION {
       IF r.services = <<>> THEN {}
       ELSE {Unit(r.services[1][svc].Runtime[1], {svc}, {}, TRUE) : svc \in DOMAIN r.services[1]},
       IF r.gateways = <<>> THEN {}
       ELSE {Unit(r.gateways[1][gw].Runtime[1], {}, {gw},
                  r.entry # "ProcPerServiceWithNewRuntimeConfig") : gw \in DOMAIN r.gateways[1]},
       IF r.proc = <<>> THEN {}
       ELSE {Unit(r.proc[1].Runtime[1], Range(SvcNames(md)), Range(GatewayNames(md)), TRUE)}}

\* C8: in the graph of a successful initialization and in every runtime
\* configuration built from it, the RoleRid of every SQL and cache connection
\* pool is the Rid of a role present in that same graph or configuration.
C8_NoDanglingRoleRid ==
    /\ done = 1 => NoDanglingRole(conf.Infra)
    /\ \A c \in Callers : \A u \in UnitsOf(ret[c]) : NoDanglingRole(u.rt.Infra)

\* C8 witness: ProcPerService succeeded; service A's configuration has SQL pools
\* and their role but not the cache role of the graph, service B's has the cache
\* pool and its role but no SQL role.
C8_Witness ==
    \E c \in Callers :
        /\ Succeeded(c, "ProcPerService")
        /\ {"A", "B"} \subseteq DOMAIN ret[c].services[1]
        /\ LET a == ret[c].services[1]["A"].Runtime[1].Infra
               b == ret[c].services[1]["B"].Runtime[1].Infra
           IN  /\ PoolRoleRids(a.SQLClusters) # {} /\ a.RedisRoles = <<>>
               /\ PoolRoleRids(b.RedisClusters) # {} /\ b.SQLRoles = <<>>
               /\ conf.Infra.RedisRoles # <<>> /\ conf.Infra.SQLRoles # <<>>

\* The managed SQL cluster of the graph, as a sequence of at most one cluster.
ManagedCluster == SelectSeq(conf.Infra.SQLClusters, LAMBDA cl : cl.Rid = sqlCluster)

\* The username the infra manager gives for managed database db.
ManagedUser(db) == SQLDatabaseConfig(infraCfg, [Name |-> db.EncoreName]).User

\* C9: a role's Rid is a function of (cluster Rid, username): each pool of a
\* managed database names the role Rid built from its cluster and its username,
\* two managed databases with the same username name the same role, and the graph
\* holds exactly one role object with that Rid, carrying that username.
C9_RoleRidByClusterAndUser ==
    \A i \in DOMAIN ManagedCluster :
        \A j, k \in DOMAIN ManagedCluster[i].Databases :
            LET d1 == ManagedCluster[i].Databases[j]
                d2 == ManagedCluster[i].Databases[k]
                rid == d1.ConnPools[1].RoleRid
            IN  /\ rid = RoleRid(ManagedCluster[i].Rid, ManagedUser(d1))
                /\ ManagedUser(d1) = ManagedUser(d2) => d2.ConnPools[1].RoleRid = rid
                /\ Cardinality({r \in DOMAIN conf.Infra.SQLRoles :
                                   conf.Infra.SQLRoles[r].Rid = rid}) = 1
                /\ \A r \in DOMAIN conf.Infra.SQLRoles :
                      conf.Infra.SQLRoles[r].Rid = rid =>
                          conf.Infra.SQLRoles[r].Username = ManagedUser(d1)

\* C9 witness: the graph is built, two managed databases have the same username,
\* their pools name one role and the graph holds one role for the managed cluster.
C9_Witness ==
    /\ done = 1
    /\ \E i \in DOMAIN ManagedCluster :
         \E j, k \in DOMAIN ManagedCluster[i].Databases :
            /\ j # k
            /\ ManagedUser(ManagedCluster[i].Databases[j])
                  = ManagedUser(ManagedCluster[i].Databases[k])
            /\ ManagedCluster[i].Databases[j].ConnPools[1].RoleRid
                  = ManagedCluster[i].Databases[k].ConnPools[1].RoleRid
            /\ Cardinality({r \in DOMAIN conf.Infra.SQLRoles :
                  conf.Infra.SQLRoles[r].Rid
                     = ManagedCluster[i].Databases[j].ConnPools[1].RoleRid}) = 1

\* The shared resources of a runtime configuration: what it holds of the graph
\* besides the identity of the deployment itself.
Shared(rt) ==
    [Infra |-> rt.Infra, Keys |-> rt.EncorePlatform.PlatformSigningKeys,
     AuthMethods |-> rt.Deployment.AuthMethods, Tracing |-> rt.Deployment.Tracing]

MonoPkgs == {Pkg(o, secs) : o \in PureOwners, secs \in SeqsUpTo(PureSecretNames, 1)}

\* The state of the generator where only pure functions are applied.
Quiet ==
    /\ done = 0 /\ mu = 0
    /\ conf = NilBuilder /\ authKeys = <<>>
    /\ nextRid = 0
    /\ stage = "idle" /\ idx = 0 /\ sqlCluster = "" /\ lookups = <<>>
    /\ pc = [c \in Callers |-> "idle"]
    /\ ret = [c \in Callers |-> NoResult]
    /\ calls = 0
    /\ callHist = [c \in Callers |-> NoHist]
    /\ builds = [started |-> 0, completed |-> 0, failed |-> 0]
    /\ graphs = {}
    /\ proxy = EmptyMap

generator == <<done, mu, conf, authKeys, nextRid, stage, idx, sqlCluster, lookups, pc, ret,
               calls, callHist, builds, graphs, proxy>>

InitMono ==
    /\ Quiet
    /\ DefinedSecrets = EmptyMap /\ SvcConfigs = EmptyMap /\ infraCfg = PureWorld.infraCfg
    /\ \E pkgs \in SeqsUpTo(MonoPkgs, MaxPkgs) : md = [EmptyMeta EXCEPT !.Pkgs = pkgs]
    /\ \E X, Y \in SeqsUpTo({"A", "B"}, MaxSvcNames) :
          /\ Range(X) \subseteq Range(Y)
          /\ fnArgs = <<[X |-> X, Y |-> Y]>>
    /\ fnRes = <<>>

\* Lines 842-858, applied to the smaller and to the larger request.
ScopeBoth ==
    /\ fnArgs # <<>> /\ fnRes = <<>>
    /\ fnRes' = <<[X |-> secretsUsedByServices(md, fnArgs[1].X),
                   Y |-> secretsUsedByServices(md, fnArgs[1].Y)]>>
    /\ UNCHANGED <<inputs, generator, fnArgs>>

NextMono == ScopeBoth

SpecMono == InitMono /\ [][NextMono]_vars

\* C11: secretsUsedByServices is monotonic: when the services of request X are
\* all in request Y, every secret scoped to X is scoped to Y.
C11_ScopeMonotonic ==
    fnRes # <<>> => fnRes[1].X \subseteq fnRes[1].Y

\* C11 witness: the larger request has a service more and gets a secret more.
C11_Witness ==
    /\ fnRes # <<>>
    /\ fnArgs[1].X = <<"A">> /\ fnArgs[1].Y = <<"A", "B">>
    /\ fnRes[1].X = {"S1"} /\ fnRes[1].Y = {"S1", "S2"}

(***************************************************************************)
(* MissingSecrets.                                                         *)
(***************************************************************************)
\* The place of a name in the ascending order of strings.
Rank(name) == CHOOSE i \in DOMAIN NameOrder : NameOrder[i] = name

\* A plausible slip: a secret defined with the empty value counts as undefined.
IsDefined_NonEmpty(defined, name) == name \in DOMAIN defined /\ defined[name] # ""

\* Line 803: _, ok := g.DefinedSecrets[name]
IsDefined(defined, name) == name \in DOMAIN defined

\* Lines 801-807: the undefined names in the order the packages declare them.
RECURSIVE CollectMissing(_, _)
CollectMissing(pkgs, defined) ==
    IF pkgs = <<>> THEN <<>>
    ELSE SelectSeq(Head(pkgs).Secrets, LAMBDA name : ~IsDefined(defined, name))
         \o CollectMissing(Tail(pkgs), defined)

\* Put name into the ascending sequence seq, after the names equal to it.
RECURSIVE InsertSorted(_, _)
InsertSorted(seq, name) ==
    IF seq = <<>> THEN <<name>>
    ELSE IF Rank(name) < Rank(Head(seq)) THEN <<name>> \o seq
    ELSE <<Head(seq)>> \o InsertSorted(Tail(seq), name)

\* A plausible slip: the list is compacted without being sorted.
SortStrings_None(seq) == seq

\* Line 809: sort.Strings(missing)
RECURSIVE SortStrings(_)
SortStrings(seq) ==
    IF seq = <<>> THEN <<>> ELSE InsertSorted(SortStrings(Tail(seq)), Head(seq))

\* Line 810: slices.Compact drops an element equal to the one before it.
RECURSIVE Compact(_)
Compact(seq) ==
    IF Len(seq) <= 1 THEN seq
    ELSE IF seq[1] = seq[2] THEN Compact(Tail(seq))
    ELSE <<seq[1]>> \o Compact(Tail(seq))

\* Lines 799-812.
MissingSecrets(m, defined) == Compact(SortStrings(CollectMissing(m.Pkgs, defined)))

MissingNames == {"S1", "S2", "S3"}
MissingPkgs == {Pkg("A", secs) : secs \in SeqsUpTo(MissingNames, MaxPkgSecrets)}

InitMissing ==
    /\ Quiet
    /\ SvcConfigs = EmptyMap /\ infraCfg = PureWorld.infraCfg
    /\ \E pkgs \in SeqsUpTo(MissingPkgs, MaxPkgs) : md = [EmptyMeta EXCEPT !.Pkgs = pkgs]
    /\ \E names \in SUBSET MissingNames : DefinedSecrets = [n \in names |-> "v"]
    /\ fnArgs = <<[round |-> 1]>>
    /\ fnRes = <<>>

\* A call of MissingSecrets.
CallMissingSecrets ==
    /\ fnArgs # <<>> /\ "round" \in DOMAIN fnArgs[1] /\ fnRes = <<>>
    /\ fnRes' = <<MissingSecrets(md, DefinedSecrets)>>
    /\ UNCHANGED <<inputs, generator, fnArgs>>

\* The caller defines every secret the call returned, all with one value.
DefineMissing ==
    /\ fnArgs # <<>> /\ "round" \in DOMAIN fnArgs[1] /\ fnArgs[1].round = 1 /\ fnRes # <<>>
    /\ \E v \in {"", "v"} :
          DefinedSecrets' = [n \in DOMAIN DefinedSecrets \cup Range(fnRes[1]) |->
                                IF n \in Range(fnRes[1]) THEN v ELSE DefinedSecrets[n]]
    /\ fnArgs' = <<[round |-> 2]>>
    /\ fnRes' = <<>>
    /\ UNCHANGED <<md, SvcConfigs, infraCfg, generator>>

NextMissing == CallMissingSecrets \/ DefineMissing

SpecMissing == InitMissing /\ [][NextMissing]_vars

\* The names some package of the metadata declares.
DeclaredNames(m) == UNION {Range(m.Pkgs[i].Secrets) : i \in DOMAIN m.Pkgs}

\* C12: MissingSecrets returns a strictly ascending list (sorted, no name twice)
\* whose elements are exactly the declared names without an entry in
\* DefinedSecrets.
C12_MissingSortedExact ==
    fnRes # <<>> =>
        /\ \A i \in 1..(Len(fnRes[1]) - 1) : Rank(fnRes[1][i]) < Rank(fnRes[1][i + 1])
        /\ Range(fnRes[1]) = DeclaredNames(md) \ DOMAIN DefinedSecrets

\* C12 witness: S3 is declared before S1 and by two packages, S2 is defined; the
\* call returned S1, S3.
C12_Witness ==
    /\ fnRes = << <<"S1", "S3">> >>
    /\ md.Pkgs = <<Pkg("A", <<"S3", "S2">>), Pkg("A", <<"S1", "S3">>)>>
    /\ DOMAIN DefinedSecrets = {"S2"}

\* C13: once every name a call of MissingSecrets returned has been defined, with
\* whatever value, the next call returns the empty list.
C13_MissingThenEmpty ==
    (fnArgs # <<>> /\ fnArgs[1].round = 2 /\ fnRes # <<>>) => fnRes[1] = <<>>

\* C13 witness: two names were returned and defined with the empty value, and
\* the second call returned the empty list.
C13_Witness ==
    /\ fnArgs = <<[round |-> 2]>> /\ fnRes = << <<>> >>
    /\ Cardinality({n \in DOMAIN DefinedSecrets : DefinedSecrets[n] = ""}) >= 2

\* The topics the graph holds.
GraphTopics ==
    UNION {Range(conf.Infra.PubSubClusters[i].Topics) : i \in DOMAIN conf.Infra.PubSubClusters}

\* The delivery guarantee the metadata declares for the topic named name.
DeclaredGuarantee(name) ==
    (CHOOSE t \in Range(md.PubsubTopics) : t.Name = name).DeliveryGuarantee

\* The metadata has a topic whose guarantee is neither of the two known ones.
HasUnknownGuarantee ==
    \E t \in Range(md.PubsubTopics) : t.DeliveryGuarantee \notin {"AT_LEAST_ONCE", "EXACTLY_ONCE"}

\* C14: a topic of the graph declared AT_LEAST_ONCE has the at-least-once
\* guarantee and one declared EXACTLY_ONCE the exactly-once guarantee; no topic
\* of the graph has another guarantee; with a topic of another guarantee in the
\* metadata no initialization succeeds and no stage after pub/sub runs.
C14_DeliveryGuarantee ==
    /\ \A t \in GraphTopics :
          \/ DeclaredGuarantee(t.EncoreName) = "AT_LEAST_ONCE"
                /\ t.DeliveryGuarantee = "DELIVERY_GUARANTEE_AT_LEAST_ONCE"
          \/ DeclaredGuarantee(t.EncoreName) = "EXACTLY_ONCE"
                /\ t.DeliveryGuarantee = "DELIVERY_GUARANTEE_EXACTLY_ONCE"
    /\ HasUnknownGuarantee =>
          /\ done = 0 /\ builds.completed = 0
          /\ stage \notin {"sqlserver", "sqldb", "redis", "buckets", "secrets"}
          /\ \A c \in Callers : pc[c] # "post"

\* C14 witness: initialize returned the error of the unknown guarantee after the
\* at-least-once and the exactly-once topic were added; the third topic was not.
C14_Witness ==
    \E c \in Callers :
        /\ pc[c] = "ret" /\ callHist[c].initErr
        /\ ret[c].err = "unknown delivery guarantee"
        /\ {t.EncoreName : t \in GraphTopics} = {"t1", "t2"}
        /\ HasUnknownGuarantee

\* The clusters of the graph that hold a database named name.
ClustersOf(name) ==
    {cl \in Range(conf.Infra.SQLClusters) : \E d \in Range(cl.Databases) : d.EncoreName = name}

\* The databases of the metadata with an externally supplied connection string.
ExternalDBs ==
    {db.Name : db \in {d \in Range(md.SqlDatabases) : ("sqldb::" \o d.Name) \in DOMAIN DefinedSecrets}}

\* C15: a database with the connection string postgres://u:p@host/db defined
\* under sqldb::<name> is in exactly one cluster of the graph; that cluster is not
\* the managed one and no other cluster has its Rid, it has one server and this
\* one database; the database's cloud name is db and its pool names a role of
\* the graph whose username is u.
C15_ExternalDatabase ==
    \A name \in ExternalDBs :
        \A cl \in ClustersOf(name) :
            /\ DefinedSecrets["sqldb::" \o name] = ExtGood
            /\ ClustersOf(name) = {cl}
            /\ cl.Rid # sqlCluster
            /\ Cardinality({i \in DOMAIN conf.Infra.SQLClusters :
                               conf.Infra.SQLClusters[i].Rid = cl.Rid}) = 1
            /\ Len(cl.Servers) = 1 /\ cl.Servers[1].Host = "host"
            /\ Len(cl.Databases) = 1
            /\ cl.Databases[1].CloudName = "db"
            /\ Len(cl.Databases[1].ConnPools) = 1
            /\ \E r \in Range(conf.Infra.SQLRoles) :
                  /\ r.Rid = cl.Databases[1].ConnPools[1].RoleRid
                  /\ r.Username = "u"

\* C15 witness: the graph is built with the external database db3 next to the
\* managed cluster, which holds the two other databases.
C15_Witness ==
    /\ done = 1
    /\ "db3" \in ExternalDBs /\ ClustersOf("db3") # {}
    /\ \E cl \in Range(conf.Infra.SQLClusters) :
          cl.Rid = sqlCluster /\ {d.EncoreName : d \in Range(cl.Databases)} = {"db1", "db2"}

\* The app-level CORS declaration names origins allowed with credentials.
ExplicitOrigins == infraCfg.CORS.AllowOriginsWithCredentials # <<>>

\* C16: a gateway of the graph allows all origins with credentials only when the
\* app-level CORS declaration names no origins allowed with credentials.
C16_UnsafeOnlyWithoutOrigins ==
    \A gw \in Range(conf.Infra.Gateways) :
        gw.Cors.UnsafeAllowAllOriginsWithCredentials => ~ExplicitOrigins

\* C16, what the code does: every gateway allows all origins with credentials,
\* and every origin without them, whatever the declaration names.
C16_AlwaysUnsafe ==
    \A gw \in Range(conf.Infra.Gateways) :
        /\ gw.Cors.UnsafeAllowAllOriginsWithCredentials
        /\ gw.Cors.AllowedOriginsWithCredentials = <<>>
        /\ gw.Cors.AllowedOriginsWithoutCredentials = <<"*">>

\* C16 witness: the graph is built, the declaration names https://app, and the
\* gateway allows all origins with credentials.
C16_Witness ==
    /\ done = 1
    /\ infraCfg.CORS.AllowOriginsWithCredentials = <<"https://app">>
    /\ \E gw \in Range(conf.Infra.Gateways) :
          gw.EncoreName = "api" /\ gw.Cors.UnsafeAllowAllOriginsWithCredentials

\* The role the pool of cache cluster name refers to, as a set.
CacheRoles(name) ==
    {r \in Range(conf.Infra.RedisRoles) :
        \E cl \in Range(conf.Infra.RedisClusters) :
            \E d \in Range(cl.Databases) :
                d.EncoreName = name /\ d.ConnPools[1].RoleRid = r.Rid}

\* C17: the role of a cache cluster has ACL auth with the server's username and
\* password when both are non-empty, auth-string auth with the password when
\* only the password is non-empty, and no auth and no password otherwise.
C17_CacheRoleShape ==
    \A cl \in Range(md.CacheClusters) :
        \A r \in CacheRoles(cl.Name) :
            LET srv == RedisServerConfig(infraCfg, cl)
            IN  /\ (srv.User # "" /\ srv.Password # "") =>
                      /\ r.Auth.kind = "acl" /\ r.Auth.Username = srv.User
                      /\ r.Auth.Password = <<[Source |-> "embedded", Embedded |-> srv.Password]>>
                /\ (srv.User = "" /\ srv.Password # "") =>
                      /\ r.Auth.kind = "auth_string" /\ r.Auth.Username = ""
                      /\ r.Auth.Password = <<[Source |-> "embedded", Embedded |-> srv.Password]>>
                /\ srv.Password = "" =>
                      r.Auth.kind = "none" /\ r.Auth.Username = "" /\ r.Auth.Password = <<>>

\* C17 witness: the graph is built with a role of each shape: c1 has a password
\* only, c2 neither username nor password, c3 both.
C17_Witness ==
    /\ done = 1
    /\ \E r1 \in CacheRoles("c1"), r2 \in CacheRoles("c2"), r3 \in CacheRoles("c3") :
          r1.Auth.kind = "auth_string" /\ r2.Auth.kind = "none" /\ r3.Auth.kind = "acl"

(***************************************************************************)
(* ProcEnvs on its own: the process configurations are the ones the entry  *)
(* points give for a graph with a SQL and a cache cluster.                 *)
(***************************************************************************)
\* The graph of world w after the platform, service, SQL and cache stages.
EnvGraph(w) ==
    LET p == StagePlatform(w.infraCfg, 1, 0)
        b0 == StageServices(p.b, w.md, w.infraCfg, AuthKeysOf(w.infraCfg))
        sql == StageSQLServer(b0, w.infraCfg, p.n)
        db == StageManagedDB(sql.b, newRid(p.n + 1),
                             SQLDatabaseConfig(w.infraCfg, w.md.SqlDatabases[1]), sql.n)
    IN  StageRedis(db.b, RedisServerConfig(w.infraCfg, w.md.CacheClusters[1]),
                   RedisDatabaseConfig(w.infraCfg, w.md.CacheClusters[1]), db.n).b

\* The runtime configurations of world w: none, one per service, one for all.
EnvRuntimes(w) ==
    {<<>>} \cup
    {BuildRuntimeConfig(EnvGraph(w), newRid(90),
                        Discovery(SvcNames(w.md), AuthKeysOf(w.infraCfg)),
                        svcs, <<>>, <<w.md>>).val :
        svcs \in {<<SvcNames(w.md)[i]>> : i \in DOMAIN w.md.Svcs} \cup {SvcNames(w.md)}}

EnvExtras(w) ==
    {<<>>,
     <<EnvVar(appSecretsEnvVar, encodeSecretsEnv(w.DefinedSecrets))>>
        \o encodeConfigs(w.SvcConfigs, SvcNames(w.md))}

InitEnvs ==
    /\ Quiet
    /\ \E w \in Worlds :
          /\ md = w.md /\ DefinedSecrets = w.DefinedSecrets
          /\ SvcConfigs = w.SvcConfigs /\ infraCfg = w.infraCfg
          /\ \E rt \in EnvRuntimes(w), addr \in Ports, extra \in EnvExtras(w),
                useRuntimeConfigV2 \in BOOLEAN :
                fnArgs = <<[proc |-> ProcConfig(rt, addr, extra),
                            useRuntimeConfigV2 |-> useRuntimeConfigV2]>>
    /\ fnRes = <<>>

\* A call of ProcEnvs (lines 747-797).
CallProcEnvs ==
    /\ fnArgs # <<>> /\ fnRes = <<>>
    /\ \E legacyOk \in BOOLEAN :
          fnRes' = <<ProcEnvs(fnArgs[1].proc, fnArgs[1].useRuntimeConfigV2, legacyOk,
                              md, infraCfg)>>
    /\ UNCHANGED <<inputs, generator, fnArgs>>

NextEnvs == CallProcEnvs

SpecEnvs == InitEnvs /\ [][NextEnvs]_vars

\* The values of the variables named name in the list env.
ValuesOf(env, name) == [i \in {j \in DOMAIN env : env[j].name = name} |-> env[i].value]

\* C18: the list ProcEnvs returns has the listen-address variable; it has the
\* runtime-config variable once when the ProcConfig carries a runtime
\* configuration and not at all otherwise; the value has the prefix gzip: iff
\* the flag selects the current encoding and is otherwise the unprefixed
\* base64-URL encoding of the legacy form.
C18_ProcEnvsRuntimeVar ==
    (fnRes # <<>> /\ fnRes[1].err = "") =>
        LET proc == fnArgs[1].proc
            vals == ValuesOf(fnRes[1].env, runtimeCfgEnvVar)
        IN  /\ DOMAIN ValuesOf(fnRes[1].env, listenEnvVar) # {}
            /\ fnRes[1].env[1] = [name |-> listenEnvVar, value |-> proc.ListenAddr]
            /\ Cardinality(DOMAIN vals) = (IF proc.Runtime # <<>> THEN 1 ELSE 0)
            /\ \A i \in DOMAIN vals :
                  /\ vals[i].prefix = "gzip:" <=> fnArgs[1].useRuntimeConfigV2
                  /\ ~fnArgs[1].useRuntimeConfigV2 =>
                        /\ vals[i].prefix = ""
                        /\ vals[i].payload.b64 = "rawurl"
                        /\ "json" \in DOMAIN vals[i].payload.of

\* C18 witness: ProcEnvs returned, with the legacy encoding, the list for a
\* ProcConfig with a runtime configuration and extra variables.
C18_Witness ==
    /\ fnRes # <<>> /\ fnRes[1].err = ""
    /\ fnArgs[1].proc.Runtime # <<>> /\ fnArgs[1].proc.ExtraEnv # <<>>
    /\ ~fnArgs[1].useRuntimeConfigV2
    /\ DOMAIN ValuesOf(fnRes[1].env, runtimeCfgEnvVar) # {}

ConfigVars(env) == [i \in {j \in DOMAIN env : env[j].name # appSecretsEnvVar} |-> env[i]]

\* The config variables due to the services svcs.
ExpectedConfigs(svcs) ==
    {EnvVar(serviceCfgEnvPrefix \o ToUpper(svc), Base64RawURL(SvcConfigs[svc])) :
        svc \in svcs \cap DOMAIN SvcConfigs}

\* The list env has exactly one variable per service of svcs with a config.
ConfigsExactly(env, svcs) ==
    /\ Range(ConfigVars(env)) = ExpectedConfigs(svcs)
    /\ Cardinality(DOMAIN ConfigVars(env)) = Cardinality(svcs \cap DOMAIN SvcConfigs)

\* C20: the process of service S that ProcPerService returns has the config
\* variable ENCORE_CFG_<S upper-cased> with S's blob when S has one, and no
\* config variable otherwise, never another service's; the single process of
\* AllInOneProc has one per service with a config blob.
C20_ConfigsPerService ==
    \A c \in Callers :
        /\ Succeeded(c, "ProcPerService") =>
              \A svc \in DOMAIN ret[c].services[1] :
                  ConfigsExactly(ret[c].services[1][svc].ExtraEnv, {svc})
        /\ Succeeded(c, "AllInOneProc") =>
              ConfigsExactly(ret[c].proc[1].ExtraEnv, Range(SvcNames(md)))

\* C20 witness: ProcPerService has succeeded where service users has a config
\* blob and service jobs has none: users gets ENCORE_CFG_USERS, jobs nothing.
C20_Witness ==
    \E c \in Callers :
        /\ Succeeded(c, "ProcPerService")
        /\ DOMAIN SvcConfigs = {"users"}
        /\ {"users", "jobs"} \subseteq DOMAIN ret[c].services[1]
        /\ Range(ConfigVars(ret[c].services[1]["users"].ExtraEnv))
              = {[name |-> "ENCORE_CFG_USERS", value |-> Base64RawURL("cfg")]}
        /\ DOMAIN ConfigVars(ret[c].services[1]["jobs"].ExtraEnv) = {}

\* The value supplied for database name is not JSON, or its connection string
\* does not parse.
BadExternal(name) ==
    /\ name \in ExternalDBs
    /\ LET extCfg == JSONConnectionString(DefinedSecrets["sqldb::" \o name])
       IN  ~extCfg.ok \/ ~PgxParseConfig(extCfg.ConnectionString).ok

\* The database loop of the running build body is past database number i.
PastDatabase(i) ==
    \/ stage = "sqldb" /\ idx > i
    \/ stage \in {"redis", "buckets", "secrets"}

\* C24: a database whose externally supplied value is not valid JSON, or whose
\* connection string does not parse, is in no cluster of the graph, managed or
\* not; the build body never goes past it and initialize never succeeds.
C24_BadExternalRejected ==
    \A i \in DOMAIN md.SqlDatabases :
        BadExternal(md.SqlDatabases[i].Name) =>
            /\ ClustersOf(md.SqlDatabases[i].Name) = {}
            /\ ~PastDatabase(i)
            /\ done = 0
            /\ \A c \in Callers : pc[c] # "post" /\ ret[c].state # "ok"

\* C24 witness: initialize has returned the parse error for db2 after adding the
\* managed database db1 to the graph.
C24_Witness ==
    \E c \in Callers :
        /\ pc[c] = "ret" /\ ret[c].state = "err"
        /\ ret[c].err = "failed to parse external DB connection string"
        /\ BadExternal("db2")
        /\ ClustersOf("db1") # {} /\ ClustersOf("db2") = {}

\* The key sets of a list of service-auth methods.
KeySetsOf(methods) == {Range(methods[i].EncoreAuth.AuthKeys) : i \in DOMAIN methods}

\* The key sets a runtime configuration hands to its consumers: the platform
\* signing keys, the default auth methods and every discovery entry.
ConsumerKeySets(rt) ==
    {Range(rt.EncorePlatform.PlatformSigningKeys)}
    \cup KeySetsOf(rt.Deployment.AuthMethods)
    \cup UNION {KeySetsOf(rt.Deployment.ServiceDiscovery[n].AuthMethods) :
                   n \in DOMAIN rt.Deployment.ServiceDiscovery}

\* C22: after a successful initialization the platform signing keys and the
\* default service-auth method of the graph, and the platform keys, the auth
\* methods and every discovery entry of every runtime configuration an entry
\* point returns, all hold the one key set made from the generator's auth key.
C22_SameAuthKeys ==
    done = 1 =>
        LET K == Range(authKeys)
        IN  /\ K = {[Id |-> infraCfg.AuthKey.KeyID, Data |-> toSecret(infraCfg.AuthKey.Data)]}
            /\ Range(conf.PlatformSigningKeys) = K
            /\ KeySetsOf(conf.AuthMethods) = {K}
            /\ \A c \in Callers : \A u \in UnitsOf(ret[c]) : ConsumerKeySets(u.rt) = {K}

\* C22 witness: ProcPerService has returned configurations whose discovery map
\* has an entry, after an initialization that had failed once before.
C22_Witness ==
    \E c \in Callers :
        /\ Succeeded(c, "ProcPerService")
        /\ builds.failed > 0
        /\ \E u \in UnitsOf(ret[c]) : DOMAIN u.rt.Deployment.ServiceDiscovery # {}

RECURSIVE GatewaysFrom(_, _, _)
GatewaysFrom(r, w, i) ==
    IF r.err # "" \/ i > Len(w.md.Gateways) THEN r
    ELSE GatewaysFrom(StageGateway(r.b, w.md.Gateways[i], w.infraCfg, w.infraCfg.CORS, r.n),
                      w, i + 1)

\* Lines 281-351: the database loop from database number i on.
RECURSIVE DatabasesFrom(_, _, _, _)
DatabasesFrom(r, w, cluster, i) ==
    IF r.err # "" \/ i > Len(w.md.SqlDatabases) THEN r
    ELSE LET db == w.md.SqlDatabases[i]
             key == "sqldb::" \o db.Name
         IN  DatabasesFrom(
                IF key \in DOMAIN w.DefinedSecrets
                THEN StageExternalDB(r.b, db, w.DefinedSecrets[key], r.n)
                ELSE StageManagedDB(r.b, cluster, SQLDatabaseConfig(w.infraCfg, db), r.n),
                w, cluster, i + 1)

\* Lines 354-413: the cache-cluster loop from cluster number i on.
RECURSIVE CachesFrom(_, _, _)
CachesFrom(r, w, i) ==
    IF r.err # "" \/ i > Len(w.md.CacheClusters) THEN r
    ELSE CachesFrom(StageRedis(r.b, RedisServerConfig(w.infraCfg, w.md.CacheClusters[i]),
                               RedisDatabaseConfig(w.infraCfg, w.md.CacheClusters[i]), r.n),
                    w, i + 1)

\* Lines 96-463: the body of initialize when no lookup fails; the app secrets
\* are added in the order given.
BuiltGraph(w, order) ==
    LET p == StagePlatform(w.infraCfg, 1, XidEpoch(1))
        s == StageResult(StageServices(p.b, w.md, w.infraCfg, AuthKeysOf(w.infraCfg)),
                         p.n, "")
        g == GatewaysFrom(s, w, 1)
        t == IF g.err = "" /\ Len(w.md.PubsubTopics) > 0
             THEN StagePubSub(g.b, w.md, w.infraCfg, g.n) ELSE g
        q == IF t.err = "" /\ Len(w.md.SqlDatabases) > 0
             THEN DatabasesFrom(StageSQLServer(t.b, w.infraCfg, t.n), w, newRid(t.n + 1), 1)
             ELSE t
        c == CachesFrom(q, w, 1)
        k == IF c.err = "" /\ Len(w.md.Buckets) > 0
             THEN StageBuckets(c.b, w.md, w.infraCfg, c.n) ELSE c
    IN  IF k.err # "" THEN k ELSE StageSecrets(k.b, order, w.DefinedSecrets, k.n)

\* The generators a pass runs on: those whose initialize can succeed, and one
\* more whose services have config blobs next to a gateway.
PassWorlds ==
    {w \in Worlds : BuiltGraph(w, <<>>).err = ""}
    \cup {[w EXCEPT !.SvcConfigs = [n \in {"A", "B"} |-> "cfg-" \o n]] :
             w \in {v \in Worlds : v.md.Gateways # <<>> /\ BuiltGraph(v, <<>>).err = ""}}

Step(op, i) == [op |-> op, i |-> i]

\* A plausible slip: each service's deployment is built right after its probe.
PassOrder_Interleaved(entry, m) ==
    LET ns == Len(m.Svcs)
        ng == Len(m.Gateways)
    IN  IF entry = "AllInOneProc" THEN <<Step("allBuild", 1), Step("allProbe", 1)>>
        ELSE [k \in 1..(2 * ns) |->
                 IF k % 2 = 1 THEN Step("svcProbe", (k + 1) \div 2)
                 ELSE Step("svcBuild", k \div 2)]
             \o [k \in 1..(2 * ng) |->
                   IF (k % 2 = 1) = (entry = "ProcPerService")
                   THEN Step("gwBuild", (k + 1) \div 2)
                   ELSE Step("gwProbe", (k + 1) \div 2)]

\* The order of the probes and builds of an entry point.  Lines 485-504 then
\* 507-528 then 531-545 (build, then probe); 604-625, 627-642, 645-663
\* (probe, then build); 559-575.
PassOrder(entry, m) ==
    LET ns == Len(m.Svcs)
        ng == Len(m.Gateways)
    IN  IF entry = "AllInOneProc" THEN <<Step("allBuild", 1), Step("allProbe", 1)>>
        ELSE [k \in 1..ns |-> Step("svcProbe", k)]
             \o [k \in 1..ns |-> Step("svcBuild", k)]
             \o [k \in 1..(2 * ng) |->
                   IF (k % 2 = 1) = (entry = "ProcPerService")
                   THEN Step("gwBuild", (k + 1) \div 2)
                   ELSE Step("gwProbe", (k + 1) \div 2)]

\* A plausible slip: the probe's listener is left open.
CloseListener_Leak(open, port) == open

\* Line 866: defer func() { _ = l.Close() }().
CloseListener(open, port) == open \ {port}

\* A plausible slip: every service gets the address of one of them.
ListenAddrOf_Any(svcListenAddr, svc) ==
    IF DOMAIN svcListenAddr = {} THEN 0
    ELSE svcListenAddr[CHOOSE n \in DOMAIN svcListenAddr : TRUE]

\* Lines 519, 636: listenAddr := svcListenAddr[svc.Name].
ListenAddrOf(svcListenAddr, svc) ==
    IF svc \in DOMAIN svcListenAddr THEN svcListenAddr[svc] ELSE 0

\* A plausible slip: the maps filled so far are returned with the error.
AddrFailed_Partial(services, gateways) ==
    [ErrResult("failed to find free localhost address") EXCEPT
       !.services = <<services>>, !.gateways = <<gateways>>]

\* Lines 487-489, 537-539, 573-575, 608-610, 647-649: the probe's error is
\* returned with nil results.
AddrFailed(services, gateways) == ErrResult("failed to find free localhost address")

\* The locals of a pass: at is the number of steps of PassOrder done (-1 before
\* the entry point's first statement), open the probe listeners that are open,
\* lis the listener freeLocalhostAddress holds, held what a gateway or the
\* all-in-one process keeps between its build and its probe.
NewPass ==
    [at |-> -1, open |-> {}, lis |-> <<>>, probes |-> <<>>, registered |-> <<>>,
     svcListenAddr |-> EmptyMap, sd |-> EmptyMap, services |-> EmptyMap,
     gateways |-> EmptyMap, held |-> <<>>, last |-> <<>>, log |-> <<>>, ret |-> NoResult]

PassEntries == {"ProcPerService", "AllInOneProc", "ProcPerServiceWithNewRuntimeConfig"}

InitPass ==
    /\ \E w \in PassWorlds :
          /\ md = w.md /\ DefinedSecrets = w.DefinedSecrets
          /\ SvcConfigs = w.SvcConfigs /\ infraCfg = w.infraCfg
          /\ LET r == BuiltGraph(w, CHOOSE o \in Orders(DOMAIN w.DefinedSecrets) : TRUE)
             IN  conf = r.b /\ nextRid = r.n /\ graphs = {r.b}
          /\ authKeys = AuthKeysOf(w.infraCfg)
          \* the proxy is new, or holds the registrations of an earlier pass
          /\ proxy \in {EmptyMap, [n \in Range(SvcNames(w.md)) |-> 1]}
    /\ done = 1 /\ mu = 0
    /\ stage = "idle" /\ idx = 0 /\ sqlCluster = "" /\ lookups = <<>>
    /\ pc = [c \in Callers |-> "idle"]
    /\ ret = [c \in Callers |-> NoResult]
    /\ calls = 0
    /\ callHist = [c \in Callers |-> NoHist]
    /\ builds = [started |-> 1, completed |-> 1, failed |-> 0]
    /\ \E e \in PassEntries : fnArgs = <<[entry |-> e, proxy |-> proxy]>>
    /\ fnRes = <<NewPass>>

PassFrame == UNCHANGED <<inputs, done, mu, conf, authKeys, stage, idx, sqlCluster, lookups,
                         pc, ret, calls, callHist, builds, graphs, fnArgs>>

Running(p) == p.ret.state = "none"

\* The step the pass is at, if any.
PassStep(p) ==
    LET order == PassOrder(fnArgs[1].entry, md)
    IN  IF p.at >= 0 /\ p.at < Len(order) THEN <<order[p.at + 1]>> ELSE <<>>

Finish(p, r) == fnRes' = <<[p EXCEPT !.ret = [r EXCEPT !.entry = fnArgs[1].entry]]>>

MapPut(f, k, v) == [x \in DOMAIN f \cup {k} |-> IF x = k THEN v ELSE f[x]]

\* Lines 589-596: after initialize, the check for service configs.
PassBegin ==
    LET p == fnRes[1]
    IN  /\ Running(p) /\ p.at = -1
        /\ IF fnArgs[1].entry = "ProcPerServiceWithNewRuntimeConfig"
              /\ ConfigsUnsupported(SvcConfigs)
           THEN Finish(p, ErrResult("service configs not yet supported"))
           ELSE fnRes' = <<[p EXCEPT !.at = 0]>>
        /\ UNCHANGED <<proxy, nextRid>>
        /\ PassFrame

\* Lines 861-864: net.Listen on port 0 fails, or gives a port no listener holds.
ProbeListen ==
    LET p == fnRes[1]
    IN  /\ Running(p) /\ p.lis = <<>>
        /\ PassStep(p) # <<>> /\ PassStep(p)[1].op \in {"svcProbe", "gwProbe", "allProbe"}
        /\ LET q == [p EXCEPT !.probes = Append(@, PassStep(p)[1])]
           IN  \/ Finish(q, AddrFailed(p.services, p.gateways))
               \/ \E port \in Ports \ p.open :
                     fnRes' = <<[q EXCEPT !.lis = <<port>>, !.open = @ \cup {port}]>>
        /\ UNCHANGED <<proxy, nextRid>>
        /\ PassFrame

\* Lines 866-868 and the caller's use of the address: 490-503, 540-544,
\* 577-585, 611-624.
ProbeReturn ==
    LET p == fnRes[1]
        port == p.lis[1]
        st == PassStep(p)[1]
        q == [p EXCEPT !.lis = <<>>, !.open = CloseListener(@, port), !.at = @ + 1]
    IN  /\ Running(p) /\ p.lis # <<>>
        /\ IF st.op = "svcProbe"
           THEN LET svc == SvcNames(md)[st.i]
                IN  /\ proxy' = MapPut(proxy, svc, port)
                    /\ fnRes' = <<[q EXCEPT
                                     !.svcListenAddr = MapPut(@, svc, port),
                                     !.registered = Append(@, svc),
                                     !.sd = MapPut(@, svc, Location(svc, authKeys))]>>
           ELSE /\ UNCHANGED proxy
                /\ IF st.op = "allProbe"
                   THEN fnRes' = <<[q EXCEPT !.held =
                           <<ProcConfig(p.held[1], port,
                               <<EnvVar(appSecretsEnvVar, encodeSecretsEnv(DefinedSecrets))>>
                               \o encodeConfigs(SvcConfigs, SvcNames(md)))>>]>>
                   ELSE IF fnArgs[1].entry = "ProcPerService"
                   THEN fnRes' = <<[q EXCEPT
                           !.gateways = MapPut(@, GatewayNames(md)[st.i],
                                               GatewayProc(p.held[1], port)),
                           !.held = <<>>]>>
                   ELSE fnRes' = <<[q EXCEPT !.held = <<port>>]>>
        /\ UNCHANGED nextRid
        /\ PassFrame

\* Lines 508-527, 532-535, 559-571, 628-641, 651-662: one deployment is built.
PassBuild ==
    LET p == fnRes[1]
        st == PassStep(p)[1]
        entry == fnArgs[1].entry
        rid == newRid(nextRid + 1)
        svc == SvcNames(md)[st.i]
        gw == GatewayNames(md)[st.i]
        r == IF st.op = "svcBuild" THEN ServiceDeployment(conf, rid, p.sd, svc, md)
             ELSE IF st.op = "allBuild"
             THEN BuildRuntimeConfig(conf, rid, EmptyMap, SvcNames(md), GatewayNames(md), <<md>>)
             ELSE IF entry = "ProcPerService" THEN GatewayDeployment(conf, rid, p.sd, gw, md)
             ELSE GatewayDeploymentNew(conf, rid, p.sd, gw, md)
        q == [p EXCEPT !.at = @ + 1, !.last = r.val,
                       !.log = Append(@, [unit |-> st, sd |-> p.sd])]
    IN  /\ Running(p)
        /\ PassStep(p) # <<>> /\ PassStep(p)[1].op \in {"svcBuild", "gwBuild", "allBuild"}
        /\ nextRid' = nextRid + 1
        /\ IF ~r.ok THEN Finish(p, ErrResult("failed to generate runtime config"))
           ELSE IF st.op = "svcBuild"
           THEN fnRes' = <<[q EXCEPT !.services = MapPut(@, svc,
                              IF entry = "ProcPerService"
                              THEN ServiceProc(r.val, ListenAddrOf(p.svcListenAddr, svc), md,
                                               DefinedSecrets, SvcConfigs, svc)
                              ELSE ProcConfig(r.val, ListenAddrOf(p.svcListenAddr, svc), <<>>))]>>
           ELSE IF st.op = "gwBuild" /\ entry # "ProcPerService"
           THEN fnRes' = <<[q EXCEPT !.gateways = MapPut(@, gw, ProcConfig(r.val, p.held[1], <<>>)),
                                     !.held = <<>>]>>
           ELSE fnRes' = <<[q EXCEPT !.held = <<r.val>>]>>
        /\ UNCHANGED proxy
        /\ PassFrame

\* Lines 547, 577-585, 665: the entry point returns what it has built.
PassReturn ==
    LET p == fnRes[1]
        entry == fnArgs[1].entry
    IN  /\ Running(p) /\ p.at = Len(PassOrder(entry, md))
        /\ Finish(p, IF entry = "AllInOneProc"
                     THEN [NoResult EXCEPT !.state = "ok", !.proc = p.held]
                     ELSE [NoResult EXCEPT
                             !.state = "ok",
                             !.services = <<p.services>>,
                             !.gateways = <<p.gateways>>,
                             !.conf = IF entry = "ProcPerService" THEN <<>> ELSE p.last])
        /\ UNCHANGED <<proxy, nextRid>>
        /\ PassFrame

NextPass == PassBegin \/ ProbeListen \/ ProbeReturn \/ PassBuild \/ PassReturn

SpecPass == InitPass /\ [][NextPass]_vars

\* The pass that has run, and its result.
Pass == fnRes[1]
PassDone(e, state) == Pass.ret.state = state /\ fnArgs[1].entry = e

\* C21: in ProcPerService and ProcPerServiceWithNewRuntimeConfig every
\* deployment, from the first one on, is built with a discovery map that has an
\* entry for every declared service, and all of them with the same map, which
\* is the one the returned configurations carry.
C21_DiscoveryBeforeReduction ==
    fnArgs[1].entry # "AllInOneProc" =>
        /\ \A k \in DOMAIN Pass.log :
              /\ DOMAIN Pass.log[k].sd = Range(SvcNames(md))
              /\ Pass.log[k].sd = Pass.log[1].sd
        /\ \A u \in UnitsOf(Pass.ret) :
              DOMAIN u.rt.Deployment.ServiceDiscovery = Range(SvcNames(md))

\* C21 witness: ProcPerService has returned after building the deployments of
\* two services and a gateway.
C21_Witness ==
    /\ PassDone("ProcPerService", "ok")
    /\ Len(Pass.log) = 3
    /\ {Pass.log[k].unit.op : k \in DOMAIN Pass.log} = {"svcBuild", "gwBuild"}
    /\ Cardinality(DOMAIN Pass.log[1].sd) = 2

\* The probes of the pass for step kind op, as the numbers of the units probed.
ProbesOf(op) == SelectSeq(Pass.probes, LAMBDA st : st.op = op)

\* C25: in a pass of ProcPerService at most one probe listener is open at any
\* time, a probe starts only when no listener is open, and a pass that succeeds
\* has probed each declared service once and each declared gateway once.
C25_ProbesSequential ==
    fnArgs[1].entry = "ProcPerService" =>
        /\ Cardinality(Pass.open) <= 1
        /\ Pass.open = Range(Pass.lis)
        /\ Pass.ret.state = "ok" =>
              /\ Pass.open = {}
              /\ ProbesOf("svcProbe") = [k \in DOMAIN md.Svcs |-> Step("svcProbe", k)]
              /\ ProbesOf("gwProbe") = [k \in DOMAIN md.Gateways |-> Step("gwProbe", k)]
              /\ Len(Pass.probes) = Len(md.Svcs) + Len(md.Gateways)

\* C25 witness: ProcPerService has succeeded after three probes.
C25_Witness ==
    /\ PassDone("ProcPerService", "ok")
    /\ Len(Pass.probes) = 3 /\ Pass.open = {}

\* C26: a pass whose address probe fails returns the error and nothing else,
\* whatever it had built; a pass of ProcPerService or
\* ProcPerServiceWithNewRuntimeConfig that succeeds returns a process
\* configuration for exactly the declared services and the declared gateways.
C26_AddrFailureReturnsNothing ==
    /\ Pass.ret.state = "err" =>
          /\ Pass.ret.err # ""
          /\ Pass.ret.services = <<>> /\ Pass.ret.gateways = <<>>
          /\ Pass.ret.proc = <<>> /\ Pass.ret.conf = <<>>
    /\ (Pass.ret.state = "ok" /\ fnArgs[1].entry # "AllInOneProc") =>
          /\ DOMAIN Pass.ret.services[1] = Range(SvcNames(md))
          /\ DOMAIN Pass.ret.gateways[1] = Range(GatewayNames(md))

\* C26 witness: the probe for a gateway failed after the process
\* configurations of the services had been built.
C26_Witness ==
    /\ PassDone("ProcPerService", "err")
    /\ Pass.ret.err = "failed to find free localhost address"
    /\ DOMAIN Pass.services = Range(SvcNames(md)) /\ DOMAIN Pass.services # {}
    /\ Pass.probes[Len(Pass.probes)].op = "gwProbe"

\* C27: after a successful ProcPerService or ProcPerServiceWithNewRuntimeConfig
\* the ListenAddr of every service is the address the pass registered for it
\* with the proxy, and the pass registered each service once.
C27_ListenAddrIsRegistered ==
    (Pass.ret.state = "ok" /\ fnArgs[1].entry # "AllInOneProc") =>
        /\ \A svc \in Range(SvcNames(md)) :
              /\ svc \in DOMAIN proxy
              /\ Pass.ret.services[1][svc].ListenAddr = proxy[svc]
              /\ Cardinality({k \in DOMAIN Pass.registered : Pass.registered[k] = svc}) = 1
        /\ Len(Pass.registered) = Len(md.Svcs)

\* C27 witness: a pass has succeeded with two services at different addresses,
\* neither the one an earlier pass had registered for both.
C27_Witness ==
    /\ PassDone("ProcPerServiceWithNewRuntimeConfig", "ok")
    /\ Len(md.Svcs) = 2
    /\ \E a, b \in DOMAIN Pass.ret.services[1] :
          Pass.ret.services[1][a].ListenAddr # Pass.ret.services[1][b].ListenAddr
    /\ fnArgs[1].proxy # proxy

\* The listen addresses a successful pass hands out, one per service and gateway.
AssignedAddrs ==
    [k \in 1..(Len(md.Svcs) + Len(md.Gateways)) |->
        IF k <= Len(md.Svcs) THEN Pass.ret.services[1][SvcNames(md)[k]].ListenAddr
        ELSE Pass.ret.gateways[1][GatewayNames(md)[k - Len(md.Svcs)]].ListenAddr]

\* C28: the listen addresses a successful ProcPerService pass assigns to its
\* services and gateways are pairwise distinct.
C28_AddrsDistinct ==
    PassDone("ProcPerService", "ok") =>
        \A j, k \in DOMAIN AssignedAddrs : j # k => AssignedAddrs[j] # AssignedAddrs[k]

\* C28 witness: a successful ProcPerService pass has given two of its services
\* and gateways the same address, each probe listener closed before the next
\* probe.
C28_Witness ==
    /\ PassDone("ProcPerService", "ok")
    /\ Len(AssignedAddrs) >= 2
    /\ Pass.open = {}
    /\ \E j, k \in DOMAIN AssignedAddrs : j # k /\ AssignedAddrs[j] = AssignedAddrs[k]

\* C29: every gateway process configuration of ProcPerService, while the pass
\* runs and in its result, has an empty ExtraEnv.
C29_GatewayNoExtraEnv ==
    fnArgs[1].entry = "ProcPerService" =>
        /\ \A gw \in DOMAIN Pass.gateways : Pass.gateways[gw].ExtraEnv = <<>>
        /\ Pass.ret.state = "ok" =>
              \A gw \in DOMAIN Pass.ret.gateways[1] : Pass.ret.gateways[1][gw].ExtraEnv = <<>>

\* C29 witness: ProcPerService has returned a gateway process where secrets and
\* service configs are defined and the service processes carry them.
C29_Witness ==
    /\ PassDone("ProcPerService", "ok")
    /\ DOMAIN Pass.ret.gateways[1] # {}
    /\ DOMAIN DefinedSecrets # {} /\ DOMAIN SvcConfigs # {}
    /\ \E svc \in DOMAIN Pass.ret.services[1] :
          Len(Pass.ret.services[1][svc].ExtraEnv) = 2

\* C30: ProcPerServiceWithNewRuntimeConfig on a generator with a service config
\* returns the error with nil results before any probe, registration or build:
\* the proxy holds what it held before the call.
C30_ConfigsRejectedFirst ==
    (fnArgs[1].entry = "ProcPerServiceWithNewRuntimeConfig" /\ DOMAIN SvcConfigs # {}) =>
        /\ Pass.at = -1
        /\ Pass.probes = <<>> /\ Pass.registered = <<>> /\ Pass.log = <<>>
        /\ Pass.open = {}
        /\ proxy = fnArgs[1].proxy
        /\ Pass.ret.state # "ok"
        /\ Pass.ret.state = "err" =>
              /\ Pass.ret.err = "service configs not yet supported"
              /\ Pass.ret.services = <<>> /\ Pass.ret.gateways = <<>>
              /\ Pass.ret.conf = <<>>

\* C30 witness: the call has been rejected on a generator with a service config
\* whose proxy holds the registrations of an earlier pass.
C30_Witness ==
    /\ PassDone("ProcPerServiceWithNewRuntimeConfig", "err")
    /\ DOMAIN SvcConfigs # {}
    /\ DOMAIN proxy # {}
    /\ Pass.ret.err = "service configs not yet supported"

====
